---------------------------- MODULE Spec2Model ----------------------------
(***************************************************************************)
(* Model of the market-agents repository: the Telegram notifier            *)
(* (src/notifiers/telegram.py), the run() pipelines of the stock and       *)
(* crypto agents (src/agents/*.py) together with the data-source and       *)
(* formatter behaviour they depend on, the retry policy and the rate       *)
(* limiter of the provider calls (src/data_sources/coingecko.py,           *)
(* fear_greed.py), and the indicator functions                             *)
(* (src/analyzers/technical.py).                                           *)
(*                                                                         *)
(* A text is a sequence of one-character strings.  The transport limit     *)
(* MAX_MESSAGE_LENGTH (4096 in the program) is scaled down so that texts   *)
(* longer than the limit can be enumerated; every comparison the code      *)
(* makes is against this one number, so the scaled model runs the same     *)
(* branches.                                                               *)
(***************************************************************************)
EXTENDS Integers, Sequences, FiniteSets, TLC

\* ----------------------------------------------------------------- bounds
\* telegram.py:11 MAX_MESSAGE_LENGTH = 4096, scaled.
MAX_MESSAGE_LENGTH == 4
\* Longest input text enumerated for send_message.
MaxTextLen == 6
\* Largest watchlist / portfolio of a run.
MaxItems == 3
\* coingecko.py:17 _min_interval = 2.1 seconds, scaled: the unit of the clock
\* is half an interval.
_min_interval == 2
\* Last value of the clock.
MaxClock == 8
\* Latest value of the clock when the module is imported.
MaxStart == 3
\* Calls of a decorated function in one behaviour.
MaxCalls == 2
\* Largest price or volume of an enumerated series.
MaxPrice == 2
\* Longest enumerated series of prices or volumes.
MaxSeriesLen == 6
\* Largest window (RSI and SMA period, MACD fast, slow and signal).
MaxPeriod == 3
\* technical.py:80, 83: the 20-value window of detect_volume_spike (and the
\* 21 = window + 1 values it needs), scaled.
VOLUME_WINDOW == 3

\* ------------------------------------------------------------------ texts
NL == "\n"
\* Alphabet of the enumerated texts: a letter, the two markup delimiters and
\* the newline of which the section separator is made.
Chars == {"a", "<", ">", NL}

\* telegram.py:12 SECTION_SEPARATOR = "\n\n"
SECTION_SEPARATOR == <<NL, NL>>

Texts == UNION {[1..n -> Chars] : n \in 0..MaxTextLen}

\* Python truthiness of a str: the empty string is falsy.
Truthy(s) == s # <<>>

\* Python s[a:b] for 0 <= a, on 0-based offsets (b is clamped to len(s)).
Slice(s, a, b) == SubSeq(s, a + 1, IF b > Len(s) THEN Len(s) ELSE b)

\* Whether the separator occurs at 1-based position i of t.
SepAt(t, i) == i + 1 <= Len(t) /\ t[i] = NL /\ t[i + 1] = NL

\* str.split(SECTION_SEPARATOR): left-to-right, non-overlapping, keeps empty
\* pieces, always at least one piece.
RECURSIVE SplitFrom(_, _, _)
SplitFrom(t, i, cur) ==
    IF i > Len(t) THEN <<cur>>
    ELSE IF SepAt(t, i) THEN <<cur>> \o SplitFrom(t, i + 2, <<>>)
    ELSE SplitFrom(t, i + 1, Append(cur, t[i]))

split(t) == SplitFrom(t, 1, <<>>)

\* SECTION_SEPARATOR.join(list)
RECURSIVE join(_)
join(ss) ==
    IF ss = <<>> THEN <<>>
    ELSE IF Len(ss) = 1 THEN ss[1]
    ELSE ss[1] \o SECTION_SEPARATOR \o join(Tail(ss))

\* telegram.py:87-88: the slices section[i : i + MAX] for i in range(0, len, MAX)
RECURSIVE ForceSplit(_, _)
ForceSplit(section, i) ==
    IF i >= Len(section) THEN <<>>
    ELSE <<Slice(section, i, i + MAX_MESSAGE_LENGTH)>>
         \o ForceSplit(section, i + MAX_MESSAGE_LENGTH)

\* telegram.py:79
CandidateNoSeparator(current, section) == current \o section

Candidate(current, section) ==
    IF Truthy(current) THEN current \o SECTION_SEPARATOR \o section ELSE section

\* telegram.py:80 the test that keeps accumulating
FitsOffByOne(candidate) == Len(candidate) <= MAX_MESSAGE_LENGTH + 1

FitsStrict(candidate) == Len(candidate) < MAX_MESSAGE_LENGTH

Fits(candidate) == Len(candidate) <= MAX_MESSAGE_LENGTH

\* A flush that drops the accumulation.
FlushDrop(parts, current) == parts

\* telegram.py:83-84 flush of the accumulated chunk
Flush(parts, current) == IF Truthy(current) THEN Append(parts, current) ELSE parts

\* One iteration that keeps the last slice of a hard-split section as the
\* accumulation.
SplitStepKeepsTail(st, section) ==
    LET candidate == Candidate(st.current, section) IN
    IF Fits(candidate) THEN [parts |-> st.parts, current |-> candidate]
    ELSE LET flushed == Flush(st.parts, st.current) IN
         IF Len(section) > MAX_MESSAGE_LENGTH
         THEN LET slices == ForceSplit(section, 0) IN
              [parts |-> flushed \o SubSeq(slices, 1, Len(slices) - 1),
               current |-> slices[Len(slices)]]
         ELSE [parts |-> flushed, current |-> section]

\* telegram.py:78-91: one iteration of the loop, on the pair (parts, current)
SplitStep(st, section) ==
    LET candidate == Candidate(st.current, section) IN
    IF Fits(candidate) THEN [parts |-> st.parts, current |-> candidate]
    ELSE LET flushed == Flush(st.parts, st.current) IN
         IF Len(section) > MAX_MESSAGE_LENGTH
         THEN [parts |-> flushed \o ForceSplit(section, 0), current |-> <<>>]
         ELSE [parts |-> flushed, current |-> section]

RECURSIVE SplitLoop(_, _, _)
SplitLoop(sections, k, st) ==
    IF k > Len(sections) THEN st
    ELSE SplitLoop(sections, k + 1, SplitStep(st, sections[k]))

\* telegram.py:71-96 TelegramNotifier._split_message
_split_message(text) ==
    LET st == SplitLoop(split(text), 1, [parts |-> <<>>, current |-> <<>>])
    IN  Flush(st.parts, st.current)

\* re.sub(r"<[^>]+>", "", s): at a "<", the match runs to the first ">" after
\* it and needs at least one character in between; otherwise the "<" is kept.
RECURSIVE FirstGt(_, _)
FirstGt(s, j) ==
    IF j > Len(s) THEN 0 ELSE IF s[j] = ">" THEN j ELSE FirstGt(s, j + 1)

RECURSIVE StripFrom(_, _)
StripFrom(s, i) ==
    IF i > Len(s) THEN <<>>
    ELSE LET j == IF s[i] = "<" THEN FirstGt(s, i + 1) ELSE 0 IN
         IF j >= i + 2 THEN StripFrom(s, j + 1)
         ELSE <<s[i]>> \o StripFrom(s, i + 1)

\* telegram.py:59
strip_tags(s) == StripFrom(s, 1)

\* telegram.py:27-31: the chunks send_message hands to _send_single
SendChunksStrict(text) ==
    IF Len(text) < MAX_MESSAGE_LENGTH THEN <<text>>
    ELSE _split_message(text)

SendChunks(text) ==
    IF Len(text) <= MAX_MESSAGE_LENGTH THEN <<text>>
    ELSE _split_message(text)

----------------------------------------------------------------------------
VARIABLES
    \* --- TelegramNotifier
    html_text,  \* argument of the running send_message call
    parts,      \* chunks of the running call
    part_i,     \* 1-based index of the chunk being delivered
    all_ok,     \* send_message's accumulator
    npc,        \* position of the notifier: idle, call, rich, plain, return, done
    calls,      \* transport log: every bot.send_message call, in order
    result,     \* value returned by send_message: "none" before it returns,
                \* then "True" or "False"
    \* --- run() of an agent
    agent,        \* "stock" or "crypto": which run() this is
    dry_run,      \* run's argument
    n_items,      \* len(watchlist) / len(portfolio): total_tickers, total_coins
    cfg_sections, \* config.<agent>.sections: flag name -> bool
    pc,           \* position of run
    item_i,       \* loop index over the watchlist / portfolio (1-based)
    batch,        \* the batch call: pending, ok, failed
    quote_map,    \* quote_map / coin_map: items the batch call returned data for
    outcomes,     \* what happened to each processed item
    analyses,     \* watchlist_analyses / portfolio_analyses
    errors,       \* errors: the warning entries, in order
    sec_i,        \* index of the next optional fetch
    fetched,      \* optional fetch name -> off, data, swallowed, raise
    report,       \* the report record (NoReport before it is built)
    status,       \* running, ok (normal return), exit1 (sys.exit(1)), exception
    notified,     \* notifier entry points run has called, in order
    \* --- a provider call under the retry policy, and the rate limiter
    fn,             \* the decorated function being called: _get or get_index
    n_calls,        \* calls started so far
    attempt_number, \* tenacity's retry_state.attempt_number
    tries,          \* attempts of the running call: request outcome and how
                    \* the function body ended
    waits,          \* the waits tenacity computed before each retry, seconds
    ret,            \* how the call ended: none, response, None, raised
    clock,          \* time.monotonic(), in units of the scaled interval
    _last_request_time, \* coingecko.py:16 the module global
    rl,             \* per caller of _rate_limit: position and locals
    releases,       \* every completed _rate_limit call, in completion order
    \* --- one call of a function of analyzers/technical.py
    ind_call,     \* the function and its arguments
    ind_done,     \* whether it has returned
    ind_result,   \* what it returned
    \* --- one execution of TelegramNotifier._split_message
    sp_text,      \* its argument `text`
    sp_sections,  \* its local `sections`: text.split(SECTION_SEPARATOR)
    sp_k,         \* 1-based index of the section the for loop takes next
    sp_parts,     \* its local list `parts`
    sp_current,   \* its local `current`
    spc,          \* idle, loop, returned
    \* --- one call of escape_html, send_error or load_config
    util_call,    \* the function and its arguments
    util_done,    \* whether it has ended
    util_result   \* what it returned, or how it ended

nvars == <<html_text, parts, part_i, all_ok, npc, calls, result>>
rvars == <<agent, dry_run, n_items, cfg_sections, pc, item_i, batch, quote_map,
           outcomes,
           analyses, errors, sec_i, fetched, report, status, notified>>
fvars == <<fn, n_calls, attempt_number, tries, waits, ret, clock,
           _last_request_time, rl, releases>>
ivars == <<ind_call, ind_done, ind_result>>
svars == <<sp_text, sp_sections, sp_k, sp_parts, sp_current, spc>>
uvars == <<util_call, util_done, util_result>>
xvars == <<fvars, ivars, svars, uvars>>
vars == <<nvars, rvars, xvars>>

\* telegram.py:22-32 entry of send_message
SendMessage ==
    /\ npc = "call"
    /\ parts' = SendChunks(html_text)
    /\ part_i' = 1
    /\ all_ok' = TRUE
    /\ npc' = IF parts' = <<>> THEN "return" ELSE "rich"
    /\ UNCHANGED <<html_text, calls, result>>
    /\ UNCHANGED <<rvars, xvars>>

\* telegram.py:33-38: where the loop goes once chunk i of n is settled. The
\* outcome ok is not consulted: there is no break on a failed chunk.
NextPosBreak(i, n, ok) == IF ok /\ i < n THEN "rich" ELSE "return"

NextPos(i, n, ok) == IF i < n THEN "rich" ELSE "return"

\* telegram.py:36-37 (and the bare return of line 28 for a single chunk)
AllOkLast(acc, ok) == ok

AllOk(acc, ok) == acc /\ ok

ChunkDone(ok) ==
    /\ all_ok' = AllOk(all_ok, ok)
    /\ part_i' = part_i + 1
    /\ npc' = NextPos(part_i, Len(parts), ok)

\* telegram.py:42-51: what _send_single does with the rich attempt's outcome:
\* return True, or go on to _send_plain_text.
RichResultNoFallback(ok) == IF ok THEN "true" ELSE "false"

RichResult(ok) == IF ok THEN "true" ELSE "plain"

\* telegram.py:40-51 _send_single: the rich-text attempt
RichSend ==
    /\ npc = "rich"
    /\ \E ok \in BOOLEAN :
         /\ calls' = Append(calls, [mode |-> "HTML", text |-> parts[part_i],
                                    part |-> part_i, ok |-> ok])
         /\ IF RichResult(ok) = "plain"
            THEN npc' = "plain" /\ UNCHANGED <<all_ok, part_i>>
            ELSE ChunkDone(RichResult(ok) = "true")
    /\ UNCHANGED <<html_text, parts, result>>
    /\ UNCHANGED <<rvars, xvars>>

\* telegram.py:53-64 _send_plain_text
PlainSend ==
    /\ npc = "plain"
    /\ \E ok \in BOOLEAN :
         /\ calls' = Append(calls, [mode |-> "plain",
                                    text |-> strip_tags(parts[part_i]),
                                    part |-> part_i, ok |-> ok])
         /\ ChunkDone(ok)
    /\ UNCHANGED <<html_text, parts, result>>
    /\ UNCHANGED <<rvars, xvars>>

\* A Python bool as send_message returns it.
PyBool(b) == IF b THEN "True" ELSE "False"

\* telegram.py:28 / 38 return of send_message
Return ==
    /\ npc = "return"
    /\ result' = PyBool(all_ok)
    /\ npc' = "done"
    /\ UNCHANGED <<html_text, parts, part_i, all_ok, calls>>
    /\ UNCHANGED <<rvars, xvars>>

NotifierNext == SendMessage \/ RichSend \/ PlainSend \/ Return

\* No report built yet.
NoReport ==
    [built |-> FALSE, agent |-> "none", watchlist |-> <<>>, data |-> {},
     total |-> 0, successful |-> 0, errors |-> <<>>]

\* No send_message call in progress.
NotifierIdle ==
    /\ html_text = <<>> /\ parts = <<>> /\ part_i = 1 /\ all_ok = TRUE
    /\ npc = "idle" /\ calls = <<>> /\ result = "none"

\* No provider call made yet.
FetchIdle ==
    /\ fn = "none" /\ n_calls = 0 /\ attempt_number = 1
    /\ tries = <<>> /\ waits = <<>> /\ ret = "none"
    /\ clock = 0 /\ _last_request_time = 0 /\ rl = <<>> /\ releases = <<>>

\* No indicator function called.
IndicatorsIdle ==
    /\ ind_call = [fn |-> "none"] /\ ind_done = FALSE /\ ind_result = <<>>

\* _split_message is not being traced.
SplitIdle ==
    /\ sp_text = <<>> /\ sp_sections = <<>> /\ sp_k = 1
    /\ sp_parts = <<>> /\ sp_current = <<>> /\ spc = "idle"

\* No utility function called.
UtilIdle ==
    /\ util_call = [fn |-> "none"] /\ util_done = FALSE /\ util_result = <<>>

\* No run() in progress: the notifier is driven directly.
RunIdle ==
    /\ agent = "none" /\ dry_run = FALSE /\ n_items = 0
    /\ cfg_sections = <<>> /\ pc = "idle" /\ item_i = 1
    /\ batch = "pending" /\ quote_map = {} /\ outcomes = <<>> /\ analyses = <<>>
    /\ errors = <<>> /\ sec_i = 1 /\ fetched = <<>> /\ report = NoReport
    /\ status = "running" /\ notified = <<>>

\* A send_message call on an arbitrary text.
InitSend ==
    /\ html_text \in Texts
    /\ parts = <<>>
    /\ part_i = 1
    /\ all_ok = TRUE
    /\ npc = "call"
    /\ calls = <<>>
    /\ result = "none"
    /\ RunIdle /\ FetchIdle /\ IndicatorsIdle /\ SplitIdle /\ UtilIdle

SpecSend == InitSend /\ [][NotifierNext]_vars

----------------------------------------------------------------------------
\* run() of the stock agent (agents/stock_agent.py) and of the crypto agent
\* (agents/crypto_agent.py).  The two functions have the same shape; `agent`
\* selects the lines that differ.

Agents == {"stock", "crypto"}

\* utils/config.py:32-36 and 52-56: the section flags run() reads.
FlagNames(a) ==
    IF a = "stock" THEN {"market_overview", "sector_performance", "top_movers"}
    ELSE {"market_overview", "fear_greed", "trending"}

\* The optional fetches of run(), in the order the code makes them, each with
\* the flag that enables it and the ways the data source can end:
\*   data      - it returned data
\*   swallowed - it caught the failure itself and returned its empty value
\*   raise     - the failure reached run()
\* stock_agent.py:120-139 with yahoo_finance.py:88-174 (the Tickers call is
\* outside the per-symbol try, the per-symbol failures are swallowed);
\* crypto_agent.py:122-148 with coingecko.py:97-174 and fear_greed.py:20-44
\* (get_global_data, get_index and get_trending wrap their whole body in
\* try/except and return None or []; get_top_coins does not wrap _get).
OptionalFetches(a) ==
    IF a = "stock" THEN
      << [name |-> "market_overview", flag |-> "market_overview",
          ends |-> {"data", "swallowed", "raise"}],
         [name |-> "sectors", flag |-> "sector_performance",
          ends |-> {"data", "swallowed", "raise"}],
         [name |-> "top_movers", flag |-> "top_movers",
          ends |-> {"data", "swallowed", "raise"}] >>
    ELSE
      << [name |-> "market_overview", flag |-> "market_overview",
          ends |-> {"data", "swallowed"}],
         [name |-> "fear_greed", flag |-> "fear_greed",
          ends |-> {"data", "swallowed"}],
         [name |-> "trending", flag |-> "trending",
          ends |-> {"data", "swallowed"}],
         [name |-> "top_coins", flag |-> "market_overview",
          ends |-> {"data", "swallowed", "raise"}] >>

\* stock_agent.py:106 / crypto_agent.py:108: total > 0 and successful < total * 0.5
TooManyFailuresStrictHalf(successful, total) == total > 0 /\ 2 * successful <= total

TooManyFailures(successful, total) == total > 0 /\ 2 * successful < total

\* The warning entry run() appends for an item that produced no analysis:
\* stock_agent.py:90-101 / crypto_agent.py:92-103.
ItemWarningOnlyMissing(errs, i, outcome) ==
    IF outcome = "no_data" THEN Append(errs, [kind |-> outcome, about |-> i])
    ELSE errs

ItemWarning(errs, i, outcome) ==
    IF outcome = "ok" THEN errs
    ELSE Append(errs, [kind |-> outcome, about |-> i])

\* The warning entry run() appends for an optional fetch: only an exception
\* that reaches run() is turned into one (stock_agent.py:123-139,
\* crypto_agent.py:125-148).
FetchWarning(errs, name, end) ==
    IF end = "raise" THEN Append(errs, [kind |-> "unavailable", about |-> name])
    ELSE errs

\* stock_agent.py:172-176 / crypto_agent.py:180-184
StatusAfterSendIgnored(ok) == "ok"

StatusAfterSend(ok) == IF ok = "True" THEN "ok" ELSE "exit1"

\* formatters/stock_message.py:45-126 and crypto_message.py:66-155: the parts
\* of the rendered report, in order.  A part is present when the report field
\* it renders is truthy; the header always is.
SectionOrder(a) ==
    IF a = "stock"
    THEN <<"header", "watchlist", "market_overview", "sectors", "top_movers",
           "warnings">>
    ELSE <<"header", "watchlist", "market_overview", "fear_greed", "trending",
           "top_coins", "warnings">>

HasPart(rep, name) ==
    CASE name = "header"    -> TRUE
      [] name = "watchlist" -> rep.watchlist # <<>>
      [] name = "warnings"  -> rep.errors # <<>>
      [] OTHER              -> name \in rep.data

RECURSIVE PartsFrom(_, _, _)
PartsFrom(rep, order, k) ==
    IF k > Len(order) THEN <<>>
    ELSE (IF HasPart(rep, order[k]) THEN <<order[k]>> ELSE <<>>)
         \o PartsFrom(rep, order, k + 1)

format_report_parts(rep) == PartsFrom(rep, SectionOrder(rep.agent), 1)

\* The body of a part, abstracted to one character that names it.
PartText(name) ==
    CASE name = "header"          -> <<"H">>
      [] name = "watchlist"       -> <<"P">>
      [] name = "market_overview" -> <<"O">>
      [] name = "sectors"         -> <<"S">>
      [] name = "top_movers"      -> <<"M">>
      [] name = "fear_greed"      -> <<"F">>
      [] name = "trending"        -> <<"T">>
      [] name = "top_coins"       -> <<"C">>
      [] name = "warnings"        -> <<"W">>

\* stock_message.py:126 / crypto_message.py:155: "\n\n".join(parts)
format_report(rep) ==
    join([k \in 1..Len(format_report_parts(rep)) |->
            PartText(format_report_parts(rep)[k])])

\* telegram.py:68: the two-section error message of send_error, its two
\* bodies abstracted to one character each.
error_html == <<"E">> \o SECTION_SEPARATOR \o <<"m">>

\* A notifier call that always goes out through the error entry point.
CallNotifierAsError(entry, text) ==
    /\ notified' = Append(notified, [entry |-> "send_error", text |-> text])
    /\ html_text' = text
    /\ npc' = "call"
    /\ parts' = <<>> /\ part_i' = 1 /\ all_ok' = TRUE /\ result' = "none"
    /\ UNCHANGED calls

\* A call of a notifier entry point from run(): telegram.py:66-69 (send_error
\* goes through send_message) and telegram.py:22.
CallNotifier(entry, text) ==
    /\ notified' = Append(notified, [entry |-> entry, text |-> text])
    /\ html_text' = text
    /\ npc' = "call"
    /\ parts' = <<>> /\ part_i' = 1 /\ all_ok' = TRUE /\ result' = "none"
    /\ UNCHANGED calls

\* stock_agent.py:83: get_quotes has no try around it in run(); a failure of
\* the per-symbol work is swallowed inside it (yahoo_finance.py:45-69), a
\* failure of the batch call itself propagates out of run().
FetchQuotes ==
    /\ pc = "fetch" /\ agent = "stock"
    /\ \/ /\ \E got \in SUBSET (1..n_items) : quote_map' = got
          /\ batch' = "ok"
          /\ pc' = "loop"
          /\ UNCHANGED status
       \/ /\ batch' = "failed" /\ quote_map' = {}
          /\ pc' = "finished"
          /\ status' = "exception"
    /\ UNCHANGED xvars
    /\ UNCHANGED <<agent, dry_run, n_items, cfg_sections, item_i, outcomes,
                   analyses, errors, sec_i, fetched, report, notified>>
    /\ UNCHANGED nvars

\* crypto_agent.py:77-86: the batch call is wrapped: on failure run() sends an
\* error notification (not in a dry run) and exits with status 1.
FetchMarketData ==
    /\ pc = "fetch" /\ agent = "crypto"
    /\ \/ /\ \E got \in SUBSET (1..n_items) : quote_map' = got
          /\ batch' = "ok"
          /\ pc' = "loop"
          /\ UNCHANGED <<status, notified, nvars>>
       \/ /\ batch' = "failed" /\ quote_map' = {}
          /\ IF dry_run
             THEN /\ pc' = "finished" /\ status' = "exit1"
                  /\ UNCHANGED <<notified, nvars>>
             ELSE /\ pc' = "await_error"
                  /\ CallNotifier("send_error", error_html)
                  /\ UNCHANGED status
    /\ UNCHANGED xvars
    /\ UNCHANGED <<agent, dry_run, n_items, cfg_sections, item_i, outcomes,
                   analyses, errors, sec_i, fetched, report>>

\* stock_agent.py:88-101 / crypto_agent.py:90-103: one iteration of the loop.
\* An item the batch returned nothing for gets a warning and is skipped; for
\* the others analyze_* returns an analysis, returns None (empty history) or
\* raises, and the last two become warnings.
AnalyzeItem ==
    /\ pc = "loop" /\ item_i <= n_items
    /\ \E outcome \in (IF item_i \in quote_map
                       THEN {"ok", "no_history", "analysis_failed"}
                       ELSE {"no_data"}) :
         /\ outcomes' = Append(outcomes, outcome)
         /\ analyses' = IF outcome = "ok" THEN Append(analyses, item_i)
                        ELSE analyses
         /\ errors' = ItemWarning(errors, item_i, outcome)
    /\ item_i' = item_i + 1
    /\ UNCHANGED xvars
    /\ UNCHANGED <<agent, dry_run, n_items, cfg_sections, pc, batch, quote_map, sec_i,
                   fetched, report, status, notified>>
    /\ UNCHANGED nvars

\* stock_agent.py:103-112 / crypto_agent.py:105-114
CheckThreshold ==
    /\ pc = "loop" /\ item_i > n_items
    /\ IF TooManyFailures(Len(analyses), n_items)
       THEN IF dry_run
            THEN /\ pc' = "finished" /\ status' = "exit1"
                 /\ UNCHANGED <<notified, nvars>>
            ELSE /\ pc' = "await_error"
                 /\ CallNotifier("send_error", error_html)
                 /\ UNCHANGED status
       ELSE /\ pc' = "sections"
            /\ UNCHANGED <<status, notified, nvars>>
    /\ UNCHANGED xvars
    /\ UNCHANGED <<agent, dry_run, n_items, cfg_sections, item_i, batch, quote_map,
                   outcomes, analyses, errors, sec_i, fetched, report>>

\* stock_agent.py:111-112 / crypto_agent.py:83-84, 113-114: send_error has
\* returned (its result is not looked at); sys.exit(1).
ExitAfterError ==
    /\ pc = "await_error" /\ npc = "done"
    /\ pc' = "finished"
    /\ status' = "exit1"
    /\ UNCHANGED xvars
    /\ UNCHANGED <<agent, dry_run, n_items, cfg_sections, item_i, batch, quote_map,
                   outcomes, analyses, errors, sec_i, fetched, report, notified>>
    /\ UNCHANGED nvars

\* stock_agent.py:120-139 / crypto_agent.py:122-148: the next optional fetch.
FetchSection ==
    /\ pc = "sections" /\ sec_i <= Len(OptionalFetches(agent))
    /\ LET f == OptionalFetches(agent)[sec_i] IN
         \E end \in (IF cfg_sections[f.flag] THEN f.ends ELSE {"off"}) :
            /\ fetched' = Append(fetched, end)
            /\ errors' = FetchWarning(errors, f.name, end)
    /\ sec_i' = sec_i + 1
    /\ UNCHANGED xvars
    /\ UNCHANGED <<agent, dry_run, n_items, cfg_sections, pc, item_i, batch, quote_map,
                   outcomes, analyses, report, status, notified>>
    /\ UNCHANGED nvars

\* A report whose successful count is the number of configured items.
BuildReportRecordCountsAll ==
    [built |-> TRUE,
     agent |-> agent,
     watchlist |-> analyses,
     data |-> {OptionalFetches(agent)[k].name :
                 k \in {j \in 1..Len(fetched) : fetched[j] = "data"}},
     total |-> n_items,
     successful |-> n_items,
     errors |-> errors]

\* stock_agent.py:142-152 / crypto_agent.py:151-161
BuildReportRecord ==
    [built |-> TRUE,
     agent |-> agent,
     watchlist |-> analyses,
     data |-> {OptionalFetches(agent)[k].name :
                 k \in {j \in 1..Len(fetched) : fetched[j] = "data"}},
     total |-> n_items,
     successful |-> Len(analyses),
     errors |-> errors]

\* stock_agent.py:141-171 / crypto_agent.py:150-179: build the report, render
\* it, and print it (dry run) or hand it to send_message.
BuildAndSend ==
    /\ pc = "sections" /\ sec_i > Len(OptionalFetches(agent))
    /\ report' = BuildReportRecord
    /\ IF dry_run
       THEN /\ pc' = "finished" /\ status' = "ok"
            /\ UNCHANGED <<notified, nvars>>
       ELSE /\ pc' = "await_send"
            /\ CallNotifier("send_message", format_report(BuildReportRecord))
            /\ UNCHANGED status
    /\ UNCHANGED xvars
    /\ UNCHANGED <<agent, dry_run, n_items, cfg_sections, item_i, batch, quote_map,
                   outcomes, analyses, errors, sec_i, fetched>>

\* stock_agent.py:172-176 / crypto_agent.py:180-184
FinishAfterSend ==
    /\ pc = "await_send" /\ npc = "done"
    /\ pc' = "finished"
    /\ status' = StatusAfterSend(result)
    /\ UNCHANGED xvars
    /\ UNCHANGED <<agent, dry_run, n_items, cfg_sections, item_i, batch, quote_map,
                   outcomes, analyses, errors, sec_i, fetched, report, notified>>
    /\ UNCHANGED nvars

RunNext ==
    \/ FetchQuotes \/ FetchMarketData \/ AnalyzeItem \/ CheckThreshold
    \/ ExitAfterError \/ FetchSection \/ BuildAndSend \/ FinishAfterSend
    \/ NotifierNext

\* stock_agent.py:71-79 / crypto_agent.py:66-73: a run() of either agent on a
\* loaded configuration (utils/config.py:40, 60: the lists have min_length 1).
InitRun ==
    /\ agent \in Agents
    /\ dry_run \in BOOLEAN
    /\ n_items \in 1..MaxItems
    /\ cfg_sections \in [FlagNames(agent) -> BOOLEAN]
    /\ pc = "fetch" /\ item_i = 1 /\ batch = "pending" /\ quote_map = {} /\ outcomes = <<>>
    /\ analyses = <<>> /\ errors = <<>> /\ sec_i = 1 /\ fetched = <<>>
    /\ report = NoReport /\ status = "running" /\ notified = <<>>
    /\ html_text = <<>> /\ parts = <<>> /\ part_i = 1 /\ all_ok = TRUE
    /\ npc = "idle" /\ calls = <<>> /\ result = "none"
    /\ FetchIdle /\ IndicatorsIdle /\ SplitIdle /\ UtilIdle

SpecRun == InitRun /\ [][RunNext]_vars

----------------------------------------------------------------------------
\* Provider calls: the retry policy tenacity applies to coingecko._get and to
\* fear_greed.get_index, and the rate limiter every _get attempt goes through
\* (data_sources/coingecko.py, data_sources/fear_greed.py).

RetryFns == {"_get", "get_index"}

\* How one HTTP request can end: a response with a good status, a
\* requests.ConnectionError / requests.Timeout, or any other exception
\* (raise_for_status, a body that is not JSON).
RequestEnds == {"ok", "transient", "other"}

\* The arguments of the @retry decorators: coingecko.py:30-35 and
\* fear_greed.py:14-19.  exp_base is tenacity's default.
RetryPolicy(f) ==
    IF f = "_get"
    THEN [stop |-> 3, multiplier |-> 2, min |-> 3, max |-> 30, exp_base |-> 2]
    ELSE [stop |-> 3, multiplier |-> 1, min |-> 2, max |-> 10, exp_base |-> 2]

Max2(a, b) == IF a >= b THEN a ELSE b
Min2(a, b) == IF a <= b THEN a ELSE b

RECURSIVE Pow(_, _)
Pow(b, e) == IF e = 0 THEN 1 ELSE b * Pow(b, e - 1)

\* tenacity wait_exponential.__call__:
\*   exp = exp_base ** (attempt_number - 1); result = multiplier * exp
\*   return max(max(0, min), min(result, max))
wait_exponential(policy, n) ==
    Max2(Max2(0, policy.min),
         Min2(policy.multiplier * Pow(policy.exp_base, n - 1), policy.max))

\* tenacity stop_after_attempt.__call__: attempt_number >= max_attempt_number
stop_after_attempt(policy, n) == n >= policy.stop

\* How the decorated function's body ends an attempt, given how its request
\* ended.  _get (coingecko.py:36-42) lets every exception out.  get_index
\* (fear_greed.py:20-44) wraps its whole body in try / except Exception and
\* returns None, so no exception ever reaches the decorator.
AttemptEndPropagating(f, req) ==
    CASE req = "ok"        -> "return"
      [] req = "transient" -> "raise_transient"
      [] req = "other"     -> "raise_other"

AttemptEnd(f, req) ==
    IF f = "get_index"
    THEN (IF req = "ok" THEN "return" ELSE "return_none")
    ELSE AttemptEndPropagating(f, req)

\* retry_if_exception_type((requests.ConnectionError, requests.Timeout))
retry_if_exception_type(end) == end = "raise_transient"

\* tenacity's decision after an attempt (Retrying.iter): the value is
\* returned, an exception the predicate does not select is raised at once, the
\* last exception is re-raised when the stop condition holds (reraise=True),
\* otherwise the call sleeps and tries again.
AfterAttempt(f, n, end) ==
    CASE end = "return"                         -> "response"
      [] end = "return_none"                    -> "None"
      [] ~retry_if_exception_type(end)          -> "raised"
      [] stop_after_attempt(RetryPolicy(f), n)  -> "raised"
      [] OTHER                                  -> "sleep"

\* coingecko.py:24-26: the sleep _rate_limit asks for, 0 when it asks for none.
SleepForNever(elapsed) == 0

SleepForAlways(elapsed) == _min_interval

SleepFor(elapsed) ==
    IF elapsed < _min_interval THEN _min_interval - elapsed ELSE 0

\* The locals of one caller of _rate_limit.
\*   pc      where it is: idle, now (before line 23), elapsed (before line
\*           24), sleep (inside time.sleep), store (before line 27), request
\*           (released), backoff (inside tenacity's sleep)
\*   now     the value read on line 23
\*   asked   the argument of time.sleep, 0 when sleep was not called
\*   wake    the earliest clock value at which time.sleep returns
\*   after   how many releases had been stored when line 24 read the global
Frame(p) == [pc |-> p, now |-> 0, asked |-> 0, wake |-> 0, after |-> 0]

\* coingecko.py:23  now = time.monotonic()
RlNow(t) ==
    /\ rl[t].pc = "now"
    /\ rl' = [rl EXCEPT ![t].now = clock, ![t].pc = "elapsed"]
    /\ UNCHANGED <<fn, n_calls, attempt_number, tries, waits, ret, clock,
                   _last_request_time, releases>>
    /\ UNCHANGED <<nvars, rvars, ivars, svars, uvars>>

\* coingecko.py:24-26  elapsed = now - _last_request_time; if elapsed <
\* _min_interval: time.sleep(_min_interval - elapsed)
RlElapsed(t) ==
    /\ rl[t].pc = "elapsed"
    /\ LET elapsed == rl[t].now - _last_request_time
           d == SleepFor(elapsed)
       IN  rl' = [rl EXCEPT ![t].asked = d,
                            ![t].wake = clock + d,
                            ![t].after = Len(releases),
                            ![t].pc = IF d > 0 THEN "sleep" ELSE "store"]
    /\ UNCHANGED <<fn, n_calls, attempt_number, tries, waits, ret, clock,
                   _last_request_time, releases>>
    /\ UNCHANGED <<nvars, rvars, ivars, svars, uvars>>

\* time.sleep returns: not before the time asked for has passed.
RlWake(t) ==
    /\ rl[t].pc = "sleep"
    /\ clock >= rl[t].wake
    /\ rl' = [rl EXCEPT ![t].pc = "store"]
    /\ UNCHANGED <<fn, n_calls, attempt_number, tries, waits, ret, clock,
                   _last_request_time, releases>>
    /\ UNCHANGED <<nvars, rvars, ivars, svars, uvars>>

\* coingecko.py:27  _last_request_time = time.monotonic(); the caller is
\* released to make its request.
RlStore(t) ==
    /\ rl[t].pc = "store"
    /\ _last_request_time' = clock
    /\ releases' = Append(releases,
                          [by |-> t, arrived |-> rl[t].now,
                           asked |-> rl[t].asked, at |-> clock,
                           after |-> rl[t].after])
    /\ rl' = [rl EXCEPT ![t].pc = "request"]
    /\ UNCHANGED <<fn, n_calls, attempt_number, tries, waits, ret, clock>>
    /\ UNCHANGED <<nvars, rvars, ivars, svars, uvars>>

\* Time passes.
Tick ==
    /\ clock < MaxClock
    /\ clock' = clock + 1
    /\ UNCHANGED <<fn, n_calls, attempt_number, tries, waits, ret,
                   _last_request_time, rl, releases>>
    /\ UNCHANGED <<nvars, rvars, ivars, svars, uvars>>

\* Where an attempt of f begins: _get calls _rate_limit first
\* (coingecko.py:38), get_index goes straight to its request.
AttemptStart(f) == IF f = "_get" THEN "now" ELSE "request"

\* The single caller of the sequential program.
Main == "main"

\* A call of a decorated function: tenacity starts with attempt 1.
StartCall ==
    /\ rl[Main].pc = "idle"
    /\ n_calls < MaxCalls
    /\ \E f \in RetryFns :
         /\ fn' = f
         /\ rl' = [rl EXCEPT ![Main] = Frame(AttemptStart(f))]
    /\ n_calls' = n_calls + 1
    /\ attempt_number' = 1
    /\ tries' = <<>> /\ waits' = <<>> /\ ret' = "none"
    /\ UNCHANGED <<clock, _last_request_time, releases>>
    /\ UNCHANGED <<nvars, rvars, ivars, svars, uvars>>

\* coingecko.py:39-42 / fear_greed.py:22-44: the request of one attempt and
\* what tenacity does with the way the attempt ended.
Request ==
    /\ rl[Main].pc = "request"
    /\ \E req \in RequestEnds :
         LET end == AttemptEnd(fn, req)
             next == AfterAttempt(fn, attempt_number, end)
         IN  /\ tries' = Append(tries, [n |-> attempt_number, req |-> req,
                                        end |-> end])
             /\ IF next = "sleep"
                THEN /\ waits' = Append(waits,
                                  wait_exponential(RetryPolicy(fn), attempt_number))
                     /\ rl' = [rl EXCEPT ![Main].pc = "backoff"]
                     /\ UNCHANGED ret
                ELSE /\ ret' = next
                     /\ rl' = [rl EXCEPT ![Main].pc = "idle"]
                     /\ UNCHANGED waits
    /\ UNCHANGED <<fn, n_calls, attempt_number, clock, _last_request_time,
                   releases>>
    /\ UNCHANGED <<nvars, rvars, ivars, svars, uvars>>

\* tenacity: prepare_for_next_attempt() and the end of its sleep.  The scaled
\* clock does not resolve the length of the backoff: the next attempt may
\* begin any time after the previous one.
Backoff ==
    /\ rl[Main].pc = "backoff"
    /\ attempt_number' = attempt_number + 1
    /\ rl' = [rl EXCEPT ![Main] = Frame(AttemptStart(fn))]
    /\ UNCHANGED <<fn, n_calls, tries, waits, ret, clock, _last_request_time,
                   releases>>
    /\ UNCHANGED <<nvars, rvars, ivars, svars, uvars>>

FetchNext ==
    \/ StartCall \/ Request \/ Backoff
    \/ RlNow(Main) \/ RlElapsed(Main) \/ RlWake(Main) \/ RlStore(Main)
    \/ Tick

\* The module has just been imported (coingecko.py:16 _last_request_time =
\* 0.0); time.monotonic() has an arbitrary origin.
InitFetch ==
    /\ fn = "none" /\ n_calls = 0 /\ attempt_number = 1
    /\ tries = <<>> /\ waits = <<>> /\ ret = "none"
    /\ clock \in 0..MaxStart
    /\ _last_request_time = 0
    /\ rl = [t \in {Main} |-> Frame("idle")]
    /\ releases = <<>>
    /\ NotifierIdle /\ RunIdle /\ IndicatorsIdle /\ SplitIdle /\ UtilIdle

SpecFetch == InitFetch /\ [][FetchNext]_vars

\* Two callers inside _rate_limit at once, as a parallel caller of _get would
\* have it.  Each of them makes one call.
Threads == {"t1", "t2"}

RaceNext ==
    \/ \E t \in Threads : RlNow(t)
    \/ \E t \in Threads : RlElapsed(t)
    \/ \E t \in Threads : RlWake(t)
    \/ \E t \in Threads : RlStore(t)
    \/ Tick

InitRace ==
    /\ fn = "_get" /\ n_calls = 0 /\ attempt_number = 1
    /\ tries = <<>> /\ waits = <<>> /\ ret = "none"
    /\ clock \in 0..MaxStart
    /\ _last_request_time = 0
    /\ rl = [t \in Threads |-> Frame("now")]
    /\ releases = <<>>
    /\ NotifierIdle /\ RunIdle /\ IndicatorsIdle /\ SplitIdle /\ UtilIdle

SpecRace == InitRace /\ [][RaceNext]_vars

----------------------------------------------------------------------------
\* TelegramNotifier._split_message traced through its for loop
\* (telegram.py:71-96), one action per iteration.

\* Longest text handed to the traced _split_message.
MaxSplitLen == 9

\* Its texts: two ordinary characters and the newline.
SplitChars == {"a", "<", NL}

SplitTexts == UNION {[1..n -> SplitChars] : n \in 0..MaxSplitLen}

\* telegram.py:74-76: split the text, start with no chunk and an empty
\* accumulation.
SplitCall ==
    /\ spc = "call"
    /\ sp_sections' = split(sp_text)
    /\ sp_parts' = <<>>
    /\ sp_current' = <<>>
    /\ sp_k' = 1
    /\ spc' = "loop"
    /\ UNCHANGED <<sp_text, nvars, rvars, fvars, ivars, uvars>>

\* telegram.py:78-91: one iteration of the for loop.
SplitSection ==
    /\ spc = "loop" /\ sp_k <= Len(sp_sections)
    /\ LET st == SplitStep([parts |-> sp_parts, current |-> sp_current],
                           sp_sections[sp_k]) IN
         /\ sp_parts' = st.parts
         /\ sp_current' = st.current
    /\ sp_k' = sp_k + 1
    /\ UNCHANGED <<sp_text, sp_sections, spc, nvars, rvars, fvars, ivars, uvars>>

\* telegram.py:93-96: the loop is over; flush what is accumulated and return.
SplitReturn ==
    /\ spc = "loop" /\ sp_k > Len(sp_sections)
    /\ sp_parts' = Flush(sp_parts, sp_current)
    /\ spc' = "returned"
    /\ UNCHANGED <<sp_text, sp_sections, sp_k, sp_current, nvars, rvars, fvars,
                   ivars, uvars>>

SplitNext == SplitCall \/ SplitSection \/ SplitReturn

\* _split_message is called on an arbitrary text (it is a static method and
\* does not look at the length of its argument).
InitSplit ==
    /\ sp_text \in SplitTexts
    /\ sp_sections = <<>> /\ sp_k = 1 /\ sp_parts = <<>> /\ sp_current = <<>>
    /\ spc = "call"
    /\ NotifierIdle /\ RunIdle /\ FetchIdle /\ IndicatorsIdle /\ UtilIdle

SpecSplit == InitSplit /\ [][SplitNext]_vars

----------------------------------------------------------------------------
\* Helpers of the properties below.

\* Indices of the transport calls made for chunk i.
CallsOf(i) == {k \in 1..Len(calls) : calls[k].part = i}

\* Chunk i was delivered: one of its transport calls succeeded.
Delivered(i) == \E k \in CallsOf(i) : calls[k].ok

\* Chunk i is settled: the loop has moved past it.
Settled(i) == i < part_i /\ npc # "call"

Finished == npc = "done"

AllSectionsFit(text) ==
    LET sections == split(text) IN
    \A k \in 1..Len(sections) : Len(sections[k]) <= MAX_MESSAGE_LENGTH

NoEmptySection(text) ==
    LET sections == split(text) IN
    \A k \in 1..Len(sections) : sections[k] # <<>>

HasSeparator(text) == \E i \in 1..Len(text) : SepAt(text, i)

\* C1: every chunk _split_message produces for the input text, and every text
\* handed to the transport (rich or plain), is at most MAX_MESSAGE_LENGTH long.
C1_ChunksWithinLimit ==
    /\ LET chunks == _split_message(html_text) IN
          \A k \in 1..Len(chunks) : Len(chunks[k]) <= MAX_MESSAGE_LENGTH
    /\ \A k \in 1..Len(parts) : Len(parts[k]) <= MAX_MESSAGE_LENGTH
    /\ \A k \in 1..Len(calls) : Len(calls[k].text) <= MAX_MESSAGE_LENGTH

\* A finished send of an over-long text with an oversized section: it was
\* force-split and at least two chunks went to the transport.
C1_Witness ==
    /\ Finished
    /\ Len(html_text) > MAX_MESSAGE_LENGTH
    /\ ~AllSectionsFit(html_text)
    /\ Len(parts) >= 2
    /\ Len(calls) >= 2

\* C2 as stated: an over-long text whose sections (empty ones included) each
\* fit is split into at least two chunks whose join by the separator is the
\* original text.
C2_Original ==
    (npc # "call" /\ Len(html_text) > MAX_MESSAGE_LENGTH
        /\ AllSectionsFit(html_text))
    => (Len(parts) >= 2 /\ join(parts) = html_text)

\* C2 amended: an over-long text whose sections are all non-empty and each fit
\* is split into at least two chunks whose join by the separator is the
\* original text.
C2_RoundTripNonEmptySections ==
    (npc # "call" /\ Len(html_text) > MAX_MESSAGE_LENGTH
        /\ AllSectionsFit(html_text) /\ NoEmptySection(html_text))
    => (Len(parts) >= 2 /\ join(parts) = html_text)

C2_Witness ==
    /\ Finished
    /\ Len(html_text) > MAX_MESSAGE_LENGTH
    /\ AllSectionsFit(html_text) /\ NoEmptySection(html_text)
    /\ Len(split(html_text)) >= 2
    /\ Len(parts) >= 2
    /\ join(parts) = html_text

\* C3: chunks reach the transport in their original order, a chunk's first
\* attempt follows the last attempt of the chunk before it, and once the send
\* has ended every chunk has had its rich-text attempt, whatever the outcomes
\* of the earlier chunks.
C3_OrderedAndAllAttempted ==
    /\ (calls # <<>> => calls[1].part = 1 /\ calls[1].mode = "HTML")
    /\ \A k \in 1..(Len(calls) - 1) :
          \/ calls[k + 1].part = calls[k].part
          \/ /\ calls[k + 1].part = calls[k].part + 1
             /\ calls[k + 1].mode = "HTML"
             /\ (calls[k].ok \/ calls[k].mode = "plain")
    /\ (npc \in {"return", "done"} =>
          \A i \in 1..Len(parts) :
             \E k \in CallsOf(i) :
                calls[k].mode = "HTML" /\ calls[k].text = parts[i])

\* The first chunk failed in both modes and the later chunk was still sent.
C3_Witness ==
    /\ Finished
    /\ Len(parts) >= 2
    /\ ~Delivered(1)
    /\ Delivered(2)

\* C4: send_message returns True exactly when every chunk was delivered in one
\* of the two modes.
C4_ResultIsConjunction ==
    Finished => (result = PyBool(\A i \in 1..Len(parts) : Delivered(i)))

\* One chunk failed in both modes, a later one succeeded, the result is False.
C4_Witness ==
    /\ Finished
    /\ Len(parts) >= 2
    /\ ~Delivered(1)
    /\ \A i \in 2..Len(parts) : Delivered(i)
    /\ result = "False"

\* C5: per chunk the rich attempt comes first; a plain attempt of the stripped
\* chunk follows only a failed rich attempt of the same chunk, once; a settled
\* chunk has one transport call if the rich attempt succeeded and two
\* otherwise; and the accumulator is False exactly when some settled chunk
\* failed in both modes.
C5_RichThenPlainOnce ==
    /\ \A k \in 1..Len(calls) :
          /\ calls[k].mode = "plain" =>
                /\ k > 1
                /\ calls[k - 1].mode = "HTML"
                /\ calls[k - 1].part = calls[k].part
                /\ ~calls[k - 1].ok
                /\ calls[k].text = strip_tags(parts[calls[k].part])
          /\ calls[k].mode = "HTML" =>
                /\ calls[k].text = parts[calls[k].part]
                /\ \A j \in 1..(k - 1) : calls[j].part # calls[k].part
    /\ \A i \in 1..Len(parts) :
          Settled(i) =>
             \E k \in CallsOf(i) :
                /\ calls[k].mode = "HTML"
                /\ Cardinality(CallsOf(i)) = IF calls[k].ok THEN 1 ELSE 2
    /\ (npc # "call" =>
          (all_ok = \A i \in 1..Len(parts) : Settled(i) => Delivered(i)))

\* A chunk whose rich attempt failed and whose plain attempt, of a text the
\* stripping changed, succeeded.
C5_Witness ==
    /\ Finished
    /\ \E k \in 1..Len(calls) :
          /\ calls[k].mode = "plain"
          /\ calls[k].ok
          /\ calls[k].text # parts[calls[k].part]
    /\ result = "True"

\* C6: a text that fits within the limit is handed over as one chunk equal to
\* the text, and its one rich-text attempt carries exactly the text.
C6_FittingTextIsOneChunk ==
    (npc # "call" /\ Len(html_text) <= MAX_MESSAGE_LENGTH) =>
       /\ parts = <<html_text>>
       /\ \A k \in 1..Len(calls) :
             calls[k].mode = "HTML" => (k = 1 /\ calls[k].text = html_text)
       /\ (Finished => calls # <<>>)

\* A fitting text that contains a section separator was sent whole.
C6_Witness ==
    /\ Finished
    /\ Len(html_text) <= MAX_MESSAGE_LENGTH
    /\ HasSeparator(html_text)
    /\ Len(split(html_text)) >= 2
    /\ calls # <<>>
    /\ calls[1].text = html_text

----------------------------------------------------------------------------
\* Helpers of the properties of run().

BatchFailed == batch = "failed"

Terminated == pc = "finished"

LoopDone == pc \notin {"idle", "fetch", "loop"} /\ ~BatchFailed

EntriesCalled == {notified[k].entry : k \in 1..Len(notified)}

ErrorNotified == "send_error" \in EntriesCalled

\* Items that produced no analysis.
FailedItems == {i \in 1..Len(outcomes) : outcomes[i] # "ok"}

\* Optional fetches that failed to load, whoever caught the failure.
FailedFetches ==
    {OptionalFetches(agent)[k].name :
       k \in {j \in 1..Len(fetched) : fetched[j] \in {"swallowed", "raise"}}}

Warned(x) == \E k \in 1..Len(errors) : errors[k].about = x

\* C7: whatever the transport does, send_message comes back with a boolean
\* (it is never stuck, makes at most two transport calls per chunk, and no
\* exception of run() comes from a delivery); in a non-dry run the report's
\* delivery result decides the end of the run: False gives exit status 1,
\* True a normal return.
C7_DeliveryFailureIsAnExitStatus ==
    /\ (npc = "done" => result \in {"True", "False"})
    /\ (npc \in {"rich", "plain"} => part_i \in 1..Len(parts))
    /\ Len(calls) <= 2 * Len(parts)
    /\ (status = "exception" => npc = "idle" /\ calls = <<>>)
    /\ ((Terminated /\ "send_message" \in EntriesCalled) =>
          /\ result \in {"True", "False"}
          /\ status = IF result = "True" THEN "ok" ELSE "exit1")

\* A non-dry run whose report went out in several chunks, one of which failed
\* in both modes while another was delivered, ended with exit status 1.
C7_Witness ==
    /\ Terminated /\ ~dry_run /\ report.built
    /\ Len(parts) >= 2
    /\ \E i \in 1..Len(parts) : ~Delivered(i)
    /\ \E i \in 1..Len(parts) : Delivered(i)
    /\ result = "False"
    /\ status = "exit1"

\* C8 as stated: after the loop, fewer than half successes means an error
\* notification, a non-zero exit and no report; half or more means the run
\* goes on to build and deliver the report.
C8_Original ==
    LoopDone =>
       IF 2 * Len(analyses) < n_items
       THEN /\ ErrorNotified
            /\ ~report.built
            /\ "send_message" \notin EntriesCalled
            /\ pc \in {"await_error", "finished"}
            /\ (Terminated => status = "exit1")
       ELSE /\ ~ErrorNotified
            /\ pc \in {"sections", "await_send", "finished"}
            /\ (Terminated => report.built)

\* C8 amended: the error notification of the abort is sent in a non-dry run
\* only; a dry run aborts without notifying.  Half or more successes: no
\* abort, the report is built and, in a non-dry run, handed to send_message.
C8_ThresholdAbort ==
    LoopDone =>
       IF 2 * Len(analyses) < n_items
       THEN /\ (ErrorNotified <=> ~dry_run)
            /\ ~report.built
            /\ "send_message" \notin EntriesCalled
            /\ pc \in {"await_error", "finished"}
            /\ (Terminated => status = "exit1")
       ELSE /\ ~ErrorNotified
            /\ pc \in {"sections", "await_send", "finished"}
            /\ (Terminated =>
                  /\ report.built
                  /\ status \in {"ok", "exit1"}
                  /\ IF dry_run THEN notified = <<>> /\ status = "ok"
                     ELSE notified = <<[entry |-> "send_message",
                                        text |-> format_report(report)]>>)

\* A non-dry run in which one item of three succeeded: aborted, notified.
C8_Witness ==
    /\ Terminated /\ LoopDone /\ ~dry_run
    /\ n_items = 3 /\ Len(analyses) = 1
    /\ ErrorNotified
    /\ ~report.built
    /\ status = "exit1"

C10_WarningsOnDataLoss ==
    report.built =>
       LET lost == FailedItems \cup FailedFetches
           warns == \E k \in 1..Len(format_report_parts(report)) :
                       format_report_parts(report)[k] = "warnings"
       IN  /\ (lost # {} =>
                 /\ warns
                 /\ \A x \in lost :
                       \E k \in 1..Len(report.errors) : report.errors[k].about = x)
           /\ (~warns => lost = {})

----------------------------------------------------------------------------
\* The indicator functions of analyzers/technical.py.  A float | None is a
\* sequence: None is <<>>, a number v is <<v>>.  Numbers are exact: a value
\* the code rounds to k decimals is held as an integer count of 10^-k (an RSI
\* in tenths, an SMA in ten-thousandths); prices and volumes are integers.

None == <<>>
Some(v) == <<v>>

Prices == 0..MaxPrice
Series == UNION {[1..n -> Prices] : n \in 0..MaxSeriesLen}
Periods == 1..MaxPeriod

\* round(x, k) of the value num / den >= 0, in units of 10^-k when num is
\* given in those units: to the nearest, ties to even.
RoundHalfEven(num, den) ==
    LET q == num \div den
        r == num % den
    IN  IF 2 * r < den THEN q
        ELSE IF 2 * r > den THEN q + 1
        ELSE IF q % 2 = 0 THEN q ELSE q + 1

RECURSIVE Sum(_)
Sum(s) == IF s = <<>> THEN 0 ELSE Head(s) + Sum(Tail(s))

\* technical.py:17  closes.diff().dropna()
diff(closes) == [k \in 1..(Len(closes) - 1) |-> closes[k + 1] - closes[k]]

\* technical.py:18  deltas.where(deltas > 0, 0.0)
GainOfFalling(d) == IF d < 0 THEN -d ELSE 0

GainOf(d) == IF d > 0 THEN d ELSE 0

\* technical.py:19  (-deltas).where(deltas < 0, 0.0)
LossOf(d) == IF d < 0 THEN -d ELSE 0

\* technical.py:22-23  ewm(alpha=1 / period, min_periods=period).mean().iloc[-1]
\* pandas' default adjust=True: the mean of xs weighted (1 - alpha)^i, i the age
\* of the observation.  With alpha = 1 / period the weights are
\* (period - 1)^i / period^i; the common factor period^(m - 1) is multiplied in
\* to keep integers, so this is the numerator of the mean and EwmWeight is
\* its denominator.  The guard of line 14 leaves at least `period` deltas, so
\* min_periods is always met.
EwmNumerator(xs, period) ==
    LET m == Len(xs) IN
    Sum([k \in 1..m |-> xs[k] * Pow(period - 1, m - k) * Pow(period, k - 1)])

\* technical.py:14
RsiGuardOffByOne(n, period) == n < period

RsiGuard(n, period) == n < period + 1

\* technical.py:28-30  rs = avg_gain / avg_loss; rsi = 100 - 100 / (1 + rs);
\* round(rsi, 1), in tenths.  gain and loss are the two weighted sums over the
\* same weights, loss > 0.
RsiFromAveragesNoOne(gain, loss) == RoundHalfEven(1000 * gain, loss)

RsiFromAverages(gain, loss) == RoundHalfEven(1000 * gain, gain + loss)

\* technical.py:8-30
calculate_rsi(closes, period) ==
    IF RsiGuard(Len(closes), period) THEN None
    ELSE LET deltas == diff(closes)
             gains == [k \in 1..Len(deltas) |-> GainOf(deltas[k])]
             losses == [k \in 1..Len(deltas) |-> LossOf(deltas[k])]
             avg_gain == EwmNumerator(gains, period)
             avg_loss == EwmNumerator(losses, period)
         IN  IF avg_loss = 0 THEN Some(1000)
             ELSE Some(RsiFromAverages(avg_gain, avg_loss))

\* technical.py:45  rolling(window=period) ... .iloc[-1]: the window that ends
\* at the last value.
WindowFirst(s, period) == SubSeq(s, 1, period)

Window(s, period) == SubSeq(s, Len(s) - period + 1, Len(s))

\* technical.py:41-46, in ten-thousandths
calculate_sma(closes, period) ==
    IF Len(closes) < period THEN None
    ELSE Some(RoundHalfEven(10000 * Sum(Window(closes, period)), period))

\* Which positions of an ewm(span=..., min_periods=k).mean() are numbers, given
\* which positions of its input are: a position is a number once k of the
\* inputs up to it are.
ewm_defined(ds, min_periods) ==
    [i \in 1..Len(ds) |->
        Cardinality({j \in 1..i : ds[j]}) >= min_periods]

\* The last element of a float series as the result dictionary holds it:
\* round(nan, 4) is nan.
LastOf(ds) == IF ds[Len(ds)] THEN "number" ELSE "nan"

\* technical.py:59
MacdGuard(n, fast, slow, signal) == n < slow + signal

\* technical.py:49-72, for a series of n numbers: which of the three results
\* are None, numbers, or nan.
calculate_macd(n, fast, slow, signal) ==
    IF MacdGuard(n, fast, slow, signal)
    THEN [line |-> "None", signal |-> "None", histogram |-> "None"]
    ELSE LET closes == [i \in 1..n |-> TRUE]
             ema_fast == ewm_defined(closes, fast)
             ema_slow == ewm_defined(closes, slow)
             macd_line == [i \in 1..n |-> ema_fast[i] /\ ema_slow[i]]
             signal_line == ewm_defined(macd_line, signal)
             histogram == [i \in 1..n |-> macd_line[i] /\ signal_line[i]]
         IN  [line |-> LastOf(macd_line), signal |-> LastOf(signal_line),
              histogram |-> LastOf(histogram)]

\* technical.py:87  volumes.iloc[-1] > avg_volume * threshold, the average
\* being total / VOLUME_WINDOW and the threshold halves / 2.
ExceedsOrEquals(last, total, halves) == 2 * VOLUME_WINDOW * last >= total * halves

Exceeds(last, total, halves) == 2 * VOLUME_WINDOW * last > total * halves

\* technical.py:75-87
detect_volume_spike(volumes, halves) ==
    IF Len(volumes) < VOLUME_WINDOW + 1 THEN FALSE
    ELSE LET before == SubSeq(volumes, 1, Len(volumes) - 1)
             total == Sum(Window(before, VOLUME_WINDOW))
         IN  IF total = 0 THEN FALSE
             ELSE Exceeds(volumes[Len(volumes)], total, halves)

\* technical.py:108-130: the vote of each criterion, as the pair of increments
\* to (bullish, bearish).
NoVote == <<0, 0>>
Bull == <<1, 0>>
Bear == <<0, 1>>

RsiVote(rsi) ==
    IF rsi = None THEN NoVote
    ELSE IF rsi[1] < 30 THEN Bull
    ELSE IF rsi[1] > 70 THEN Bear
    ELSE NoVote

MacdVote(macd_histogram) ==
    IF macd_histogram = None THEN NoVote
    ELSE IF macd_histogram[1] > 0 THEN Bull
    ELSE IF macd_histogram[1] < 0 THEN Bear
    ELSE NoVote

PriceVoteTieSkips(price, sma_short) ==
    IF price = None \/ sma_short = None THEN NoVote
    ELSE IF price[1] > sma_short[1] THEN Bull
    ELSE IF price[1] < sma_short[1] THEN Bear
    ELSE NoVote

PriceVote(price, sma_short) ==
    IF price = None \/ sma_short = None THEN NoVote
    ELSE IF price[1] > sma_short[1] THEN Bull ELSE Bear

CrossVote(sma_short, sma_long) ==
    IF sma_short = None \/ sma_long = None THEN NoVote
    ELSE IF sma_short[1] > sma_long[1] THEN Bull ELSE Bear

\* technical.py:90-136
get_signal_summary(rsi, macd_histogram, price, sma_short, sma_long) ==
    LET votes == <<RsiVote(rsi), MacdVote(macd_histogram),
                   PriceVote(price, sma_short), CrossVote(sma_short, sma_long)>>
        bullish == Sum([k \in 1..4 |-> votes[k][1]])
        bearish == Sum([k \in 1..4 |-> votes[k][2]])
    IN  IF bullish > bearish THEN "Bullish"
        ELSE IF bearish > bullish THEN "Bearish"
        ELSE "Neutral"

\* The calls enumerated.
Optional(S) == {None} \cup {Some(v) : v \in S}

RsiCalls ==
    [fn : {"calculate_rsi"}, closes : Series, period : Periods]

SmaCalls ==
    [fn : {"calculate_sma"}, closes : Series, period : Periods]

MacdCalls ==
    [fn : {"calculate_macd"}, n : 0..(2 * MaxPeriod + 1),
     fast : Periods, slow : Periods, signal : Periods]

SpikeCalls ==
    [fn : {"detect_volume_spike"}, volumes : Series, halves : {2, 3, 4}]

SignalCalls ==
    [fn : {"get_signal_summary"},
     rsi : Optional({29, 30, 50, 70, 71}),
     macd_histogram : Optional({-1, 0, 1}),
     price : Optional({1, 2}),
     sma_short : Optional({1, 2}),
     sma_long : Optional({1, 2})]

Returns(value) ==
    /\ ~ind_done
    /\ ind_done' = TRUE
    /\ ind_result' = value
    /\ UNCHANGED ind_call
    /\ UNCHANGED <<nvars, rvars, fvars, svars, uvars>>

CalculateRsi ==
    /\ ind_call.fn = "calculate_rsi"
    /\ Returns(calculate_rsi(ind_call.closes, ind_call.period))

CalculateSma ==
    /\ ind_call.fn = "calculate_sma"
    /\ Returns(calculate_sma(ind_call.closes, ind_call.period))

CalculateMacd ==
    /\ ind_call.fn = "calculate_macd"
    /\ Returns(calculate_macd(ind_call.n, ind_call.fast, ind_call.slow,
                              ind_call.signal))

DetectVolumeSpike ==
    /\ ind_call.fn = "detect_volume_spike"
    /\ Returns(detect_volume_spike(ind_call.volumes, ind_call.halves))

GetSignalSummary ==
    /\ ind_call.fn = "get_signal_summary"
    /\ Returns(get_signal_summary(ind_call.rsi, ind_call.macd_histogram,
                                  ind_call.price, ind_call.sma_short,
                                  ind_call.sma_long))

IndicatorsNext ==
    \/ CalculateRsi \/ CalculateSma \/ CalculateMacd
    \/ DetectVolumeSpike \/ GetSignalSummary

InitIndicators ==
    /\ ind_call \in RsiCalls \cup SmaCalls \cup MacdCalls \cup SpikeCalls
                    \cup SignalCalls
    /\ ind_done = FALSE
    /\ ind_result = <<>>
    /\ NotifierIdle /\ RunIdle /\ FetchIdle /\ SplitIdle /\ UtilIdle

SpecIndicators == InitIndicators /\ [][IndicatorsNext]_vars

----------------------------------------------------------------------------
\* Provider calls: helpers.

\* The running call of a decorated function has ended.
CallEnded == n_calls > 0 /\ ret # "none"

NonDecreasing(s) == \A k \in 1..(Len(s) - 1) : s[k] <= s[k + 1]

\* What the retry policy promises of the running call: attempts are numbered
\* from 1 and never exceed the stop count; an attempt that failed with a
\* transient error before the stop count is followed by another attempt; the
\* waits are non-decreasing and within the ceiling; the call ends with the
\* response of its first successful attempt or with the failure raised.
RetryContract ==
    LET policy == RetryPolicy(fn) IN
    /\ Len(tries) <= policy.stop
    /\ \A k \in 1..Len(tries) :
          /\ tries[k].n = k
          /\ (tries[k].req = "transient" /\ k < policy.stop)
                => (k < Len(tries) \/ ~CallEnded)
          /\ (tries[k].req = "ok" => k = Len(tries))
    /\ NonDecreasing(waits)
    /\ \A k \in 1..Len(waits) : waits[k] <= policy.max
    /\ (CallEnded =>
          /\ tries # <<>>
          /\ ret = IF tries[Len(tries)].req = "ok" THEN "response" ELSE "raised")

\* C11: a request that fails with a transient network error is retried, one
\* attempt at a time, while fewer than 3 attempts have been made, with
\* non-decreasing waits within the ceiling, and the call ends after at most 3
\* attempts with the first successful response or with the failure surfaced;
\* for _get and for get_index alike.
C11_TransientIsRetried == fn \in RetryFns => RetryContract

\* C12: with a single caller, each release by _rate_limit is at least the
\* minimum interval after the previous one; a caller that arrived before the
\* interval had elapsed asked to sleep exactly the remainder, and one that
\* arrived later asked for no sleep.
C12_MinimumIntervalBetweenReleases ==
    \A k \in 2..Len(releases) :
       LET since == releases[k].arrived - releases[k - 1].at IN
       /\ releases[k].at >= releases[k - 1].at + _min_interval
       /\ (since < _min_interval =>
             releases[k].arrived + releases[k].asked
                = releases[k - 1].at + _min_interval)
       /\ (since >= _min_interval =>
             /\ releases[k].asked = 0
             /\ releases[k].at >= releases[k].arrived)

\* Three releases among which the retry attempts of one request, one of them
\* delayed and one not.
C12_Witness ==
    /\ Len(releases) >= 3
    /\ fn = "_get" /\ attempt_number >= 2
    /\ \E k \in 2..Len(releases) : releases[k].asked > 0
    /\ \E k \in 2..Len(releases) : releases[k].asked = 0

\* C13: with two callers inside _rate_limit at once the guarantee is lost, and
\* only through the race: two releases closer than the minimum interval occur,
\* and whenever they do the later caller had read _last_request_time before
\* the earlier caller stored its release.
C13_CloseReleasesOnlyByRace ==
    \A k \in 2..Len(releases) :
       releases[k].at - releases[k - 1].at < _min_interval
          => releases[k].after < k - 1

\* Both callers were released, less than the minimum interval apart.
C13_Witness ==
    /\ Len(releases) = 2
    /\ releases[1].by # releases[2].by
    /\ releases[2].at - releases[1].at < _min_interval
    /\ \A t \in Threads : rl[t].pc = "request"

----------------------------------------------------------------------------
\* Indicators: helpers.

Returned(f) == ind_done /\ ind_call.fn = f

\* Every value of s is below the one before it.
StrictlyDecreasing(s) == \A k \in 1..(Len(s) - 1) : s[k] > s[k + 1]

\* No value of s is above the one before it.
NonIncreasing(s) == \A k \in 1..(Len(s) - 1) : s[k] >= s[k + 1]

\* The reference vote count of the signal: the criteria voting each way.
Criteria == {"rsi", "macd", "price", "cross"}

BullishVotes(c) ==
    {x \in Criteria :
       CASE x = "rsi"   -> c.rsi # None /\ c.rsi[1] < 30
         [] x = "macd"  -> c.macd_histogram # None /\ c.macd_histogram[1] > 0
         [] x = "price" -> c.price # None /\ c.sma_short # None
                             /\ c.price[1] > c.sma_short[1]
         [] x = "cross" -> c.sma_short # None /\ c.sma_long # None
                             /\ c.sma_short[1] > c.sma_long[1]}

BearishVotes(c) ==
    {x \in Criteria :
       CASE x = "rsi"   -> c.rsi # None /\ c.rsi[1] > 70
         [] x = "macd"  -> c.macd_histogram # None /\ c.macd_histogram[1] < 0
         [] x = "price" -> c.price # None /\ c.sma_short # None
                             /\ c.price[1] <= c.sma_short[1]
         [] x = "cross" -> c.sma_short # None /\ c.sma_long # None
                             /\ c.sma_short[1] <= c.sma_long[1]}

\* C14: get_signal_summary equals the reference vote count: each criterion
\* casts at most one vote, the result is Bullish iff the bullish votes
\* outnumber the bearish ones, Bearish iff the reverse, Neutral on a tie, and
\* nothing else is returned.
C14_SignalIsTheVoteCount ==
    Returned("get_signal_summary") =>
       LET bullish == Cardinality(BullishVotes(ind_call))
           bearish == Cardinality(BearishVotes(ind_call))
       IN  /\ BullishVotes(ind_call) \cap BearishVotes(ind_call) = {}
           /\ ind_result \in {"Bullish", "Bearish", "Neutral"}
           /\ (ind_result = "Bullish" <=> bullish > bearish)
           /\ (ind_result = "Bearish" <=> bearish > bullish)
           /\ (ind_result = "Neutral" <=> bullish = bearish)

\* The price equal to the short average is the only vote cast: Bearish.
C14_Witness ==
    /\ Returned("get_signal_summary")
    /\ ind_call.rsi = None /\ ind_call.macd_histogram = None
    /\ ind_call.sma_long = None
    /\ ind_call.price # None /\ ind_call.price = ind_call.sma_short
    /\ ind_result = "Bearish"

\* C15: calculate_rsi returns None for fewer than period + 1 values, and
\* exactly 100.0 for at least period + 1 values none of whose successive deltas
\* is negative.
C15_RsiUndefinedOrHundred ==
    Returned("calculate_rsi") =>
       /\ (Len(ind_call.closes) < ind_call.period + 1 => ind_result = None)
       /\ (Len(ind_call.closes) >= ind_call.period + 1
             /\ NonDecreasing(ind_call.closes)
           => ind_result = Some(1000))

\* A flat series of exactly period + 1 values gave 100.0.
C15_Witness ==
    /\ Returned("calculate_rsi")
    /\ Len(ind_call.closes) = ind_call.period + 1
    /\ \A k \in 1..Len(ind_call.closes) : ind_call.closes[k] = ind_call.closes[1]
    /\ ind_result = Some(1000)

\* C16: a defined RSI lies in [0, 100].
C16_RsiWithinBounds ==
    (Returned("calculate_rsi") /\ ind_result # None) =>
       (0 <= ind_result[1] /\ ind_result[1] <= 1000)

\* A series with gains and losses gave a value strictly inside the interval.
C16_Witness ==
    /\ Returned("calculate_rsi")
    /\ ind_result # None
    /\ 0 < ind_result[1] /\ ind_result[1] < 1000
    /\ ind_result[1] # 500

\* C17 as stated, monotonically decreasing read as the textbooks define it
\* (no value larger than the one before it): RSI > 50 for every monotonically
\* increasing series of at least period + 1 values, RSI < 50 for every
\* monotonically decreasing one.
C17_Original ==
    (Returned("calculate_rsi") /\ Len(ind_call.closes) >= ind_call.period + 1) =>
       /\ (NonDecreasing(ind_call.closes) =>
             ind_result # None /\ ind_result[1] > 500)
       /\ (NonIncreasing(ind_call.closes) =>
             ind_result # None /\ ind_result[1] < 500)

\* C17 amended: RSI > 50 for every monotonically increasing series of at least
\* period + 1 values, RSI < 50 for every strictly decreasing one.
C17_RsiFollowsTheTrend ==
    (Returned("calculate_rsi") /\ Len(ind_call.closes) >= ind_call.period + 1) =>
       /\ (NonDecreasing(ind_call.closes) =>
             ind_result # None /\ ind_result[1] > 500)
       /\ (StrictlyDecreasing(ind_call.closes) =>
             ind_result # None /\ ind_result[1] < 500)

\* A strictly falling series longer than one delta gave an RSI below 50.
C17_Witness ==
    /\ Returned("calculate_rsi")
    /\ Len(ind_call.closes) >= 3
    /\ Len(ind_call.closes) >= ind_call.period + 1
    /\ StrictlyDecreasing(ind_call.closes)
    /\ ind_result # None /\ ind_result[1] < 500

\* C18: calculate_sma returns None iff the series has fewer than `period`
\* values; otherwise it returns the arithmetic mean of the last `period`
\* values to the four decimals it reports (the mean itself when that has no
\* more than four decimals), and the values before them have no influence.
C18_SmaIsMeanOfLastPeriod ==
    Returned("calculate_sma") =>
       LET closes == ind_call.closes
           period == ind_call.period
       IN  /\ (ind_result = None <=> Len(closes) < period)
           /\ (Len(closes) >= period =>
                 LET last == [k \in 1..period |-> closes[Len(closes) - period + k]]
                     total == Sum(last)
                     off == ind_result[1] * period - 10000 * total
                 IN  /\ 2 * off <= period /\ -2 * off <= period
                     /\ ((10000 * total) % period = 0 => off = 0)
                     /\ ind_result = calculate_sma(last, period))

\* A series longer than the window, whose first value lies outside the window
\* and differs from every value inside it.
C18_Witness ==
    /\ Returned("calculate_sma")
    /\ Len(ind_call.closes) > ind_call.period
    /\ ind_call.period >= 2
    /\ \A k \in 2..Len(ind_call.closes) : ind_call.closes[k] < ind_call.closes[1]
    /\ ind_result # None
    /\ ind_result[1] * ind_call.period
          = 10000 * Sum(SubSeq(ind_call.closes,
                               Len(ind_call.closes) - ind_call.period + 1,
                               Len(ind_call.closes)))

\* C19: calculate_macd returns line, signal and histogram all None iff
\* len(closes) < slow + signal, and otherwise all three are numbers, for every
\* window triple of positive integers.
C19_MacdDefinedTogether ==
    Returned("calculate_macd") =>
       LET short == ind_call.n < ind_call.slow + ind_call.signal
           fields == {ind_result.line, ind_result.signal, ind_result.histogram}
       IN  /\ (short <=> fields = {"None"})
           /\ (~short => fields = {"number"})

\* C20: detect_volume_spike returns True iff the series has at least
\* window + 1 values, the mean of the `window` values before the most recent
\* one is non-zero, and the most recent value strictly exceeds mean *
\* threshold; so a shorter series, a constant series with threshold 2.0, and
\* equality with mean * threshold all give False.
C20_SpikeIffStrictlyAboveMean ==
    Returned("detect_volume_spike") =>
       LET v == ind_call.volumes
           n == Len(v)
           total == Sum([k \in 1..VOLUME_WINDOW |-> v[n - VOLUME_WINDOW - 1 + k]])
       IN  /\ ind_result <=>
                 /\ n >= VOLUME_WINDOW + 1
                 /\ total # 0
                 /\ 2 * VOLUME_WINDOW * v[n] > total * ind_call.halves
           /\ (n < VOLUME_WINDOW + 1 => ~ind_result)
           /\ ((\A k \in 1..n : v[k] = v[1]) /\ ind_call.halves = 4
                 => ~ind_result)
           /\ (n >= VOLUME_WINDOW + 1
                 /\ 2 * VOLUME_WINDOW * v[n] = total * ind_call.halves
               => ~ind_result)

\* A spike at the end of a series that is longer than window + 1, at
\* threshold 2.0.
C20_Witness ==
    /\ Returned("detect_volume_spike")
    /\ Len(ind_call.volumes) > VOLUME_WINDOW + 1
    /\ ind_call.halves = 4
    /\ ind_result = TRUE

----------------------------------------------------------------------------
\* escape_html (telegram.py:99-101), load_config (utils/config.py:85-122) and
\* TelegramNotifier.send_error (telegram.py:66-69), one call each.

\* Longest text handed to escape_html.
MaxEscapeLen == 4

\* Longest error text handed to send_error.
MaxMessageLen == 2

\* Longest value of an environment variable.
MaxEnvLen == 2

\* str.replace(old, new) for a one-character old.
RECURSIVE replace(_, _, _)
replace(s, old, new) ==
    IF s = <<>> THEN <<>>
    ELSE (IF s[1] = old THEN new ELSE <<s[1]>>) \o replace(Tail(s), old, new)

\* The entities html.escape produces.
amp == <<"&", "a", "m", "p", ";">>
lt == <<"&", "l", "t", ";">>
gt == <<"&", "g", "t", ";">>

\* An escape that replaces the ampersand last.
escape_htmlAmpLast(s) ==
    replace(replace(replace(s, "<", lt), ">", gt), "&", amp)

\* telegram.py:99-101: html.escape(text, quote=False) is three replace passes
\* over the whole string, "&" first, then "<", then ">"; the quote passes are
\* off.
escape_html(s) ==
    replace(replace(replace(s, "&", amp), "<", lt), ">", gt)

\* Texts handed to escape_html: the three special characters, the double
\* quote, and the characters of an entity.
EscapeChars == {"&", "<", ">", "\"", "l", "t", ";"}

\* Values of an environment variable: unset, or a string of blanks and
\* ordinary characters.
EnvValues ==
    Optional(UNION {[1..n -> {" ", "x"}] : n \in 0..MaxEnvLen})

\* os.environ.get(name, default)
environ_get(value, default) == IF value = None THEN default ELSE value[1]

\* str.strip() on these strings: leading and trailing blanks removed.
RECURSIVE lstrip(_)
lstrip(s) ==
    IF s = <<>> THEN <<>>
    ELSE IF s[1] = " " THEN lstrip(Tail(s)) ELSE s

RECURSIVE rstrip(_)
rstrip(s) ==
    IF s = <<>> THEN <<>>
    ELSE IF s[Len(s)] = " " THEN rstrip(SubSeq(s, 1, Len(s) - 1)) ELSE s

strip(s) == rstrip(lstrip(s))

\* Python `a or b` on strings.
Or(a, b) == IF Truthy(a) THEN a ELSE b

\* config.py:108-109 the placeholders of a dry run.
dry_run_token == <<"d", "t">>
dry_run_chat_id == <<"d", "c">>

\* config.py:70-76 TelegramConfig.check_not_empty: TRUE when it raises.
check_not_empty(bot_token, chat_id) ==
    ~Truthy(strip(bot_token)) \/ ~Truthy(strip(chat_id))

\* config.py:85-122 load_config on a readable file whose stock and crypto
\* parts validate (file_valid) or not.
load_config(file_valid, require_telegram, token_env, chat_env) ==
    LET got_token == environ_get(token_env, <<>>)
        got_chat == environ_get(chat_env, <<>>)
        bot_token == IF ~require_telegram THEN Or(got_token, dry_run_token)
                     ELSE got_token
        chat_id == IF ~require_telegram THEN Or(got_chat, dry_run_chat_id)
                   ELSE got_chat
    IN IF ~file_valid \/ check_not_empty(bot_token, chat_id)
       THEN [outcome |-> "raise", bot_token |-> <<>>, chat_id |-> <<>>]
       ELSE [outcome |-> "config", bot_token |-> bot_token,
             chat_id |-> chat_id]

\* The calls of escape_html.
EscapeCalls ==
    {[fn |-> "escape_html", text |-> t] :
       t \in UNION {[1..n -> EscapeChars] : n \in 0..MaxEscapeLen}}

\* The calls of load_config.
ConfigCalls ==
    {[fn |-> "load_config", file_valid |-> v, require_telegram |-> r,
      token_env |-> t, chat_env |-> c] :
       v \in BOOLEAN, r \in BOOLEAN, t \in EnvValues, c \in EnvValues}

\* The called function returns (or raises) in one step.
UtilReturns(value) ==
    /\ util_result' = value
    /\ util_done' = TRUE
    /\ UNCHANGED <<util_call, nvars, rvars, fvars, ivars, svars>>

EscapeHtml ==
    /\ util_call.fn = "escape_html" /\ ~util_done
    /\ UtilReturns(escape_html(util_call.text))

LoadConfig ==
    /\ util_call.fn = "load_config" /\ ~util_done
    /\ UtilReturns(load_config(util_call.file_valid, util_call.require_telegram,
                               util_call.token_env, util_call.chat_env))

\* An error message rendered without escaping the error text.
error_html_raw(message) ==
    <<"E">> \o SECTION_SEPARATOR \o <<"c">> \o message \o <<"/">>

\* telegram.py:68 the f-string of send_error: the header line, the section
\* separator, and the escaped error text between <code> and </code>.  The
\* header and the two code tags are fixed markup, one character each here
\* ("E", "c", "/").
error_html_of(message) ==
    <<"E">> \o SECTION_SEPARATOR \o <<"c">> \o escape_html(message) \o <<"/">>

\* The calls of send_error, on error texts with and without special
\* characters and newlines.
ErrorCalls ==
    {[fn |-> "send_error", message |-> m] :
       m \in UNION {[1..n -> {"a", "<", "&", NL}] : n \in 0..MaxMessageLen}}

\* telegram.py:66-69: send_error renders the message and calls send_message.
SendError ==
    /\ util_call.fn = "send_error" /\ ~util_done /\ npc = "idle"
    /\ html_text' = error_html_of(util_call.message)
    /\ npc' = "call"
    /\ parts' = <<>> /\ part_i' = 1 /\ all_ok' = TRUE /\ result' = "none"
    /\ UNCHANGED <<calls, rvars, xvars>>

\* telegram.py:69: send_error returns what send_message returned.
SendErrorReturn ==
    /\ util_call.fn = "send_error" /\ ~util_done /\ npc = "done"
    /\ util_result' = result
    /\ util_done' = TRUE
    /\ UNCHANGED <<util_call, nvars, rvars, fvars, ivars, svars>>

UtilsNext ==
    \/ EscapeHtml
    \/ LoadConfig
    \/ SendError
    \/ NotifierNext
    \/ SendErrorReturn

\* One call of escape_html, load_config or send_error, on arbitrary arguments.
InitUtils ==
    /\ util_call \in EscapeCalls \cup ConfigCalls \cup ErrorCalls
    /\ util_done = FALSE
    /\ util_result = <<>>
    /\ NotifierIdle /\ RunIdle /\ FetchIdle /\ IndicatorsIdle /\ SplitIdle

SpecUtils == InitUtils /\ [][UtilsNext]_vars

----------------------------------------------------------------------------
\* analyze_ticker (stock_agent.py:24-68) and analyze_coin
\* (crypto_agent.py:24-63): one call, and the caller's recording of what it
\* returned (stock_agent.py:92-99, crypto_agent.py:94-101).

\* Longest price history handed to an analysis.
MaxHistoryLen == 4

\* Closing prices of a history, and the quoted price (models/stock.py: gt=0).
HistoryPrices == {1, MaxPrice}

\* The history the data source returned: empty when it has no data or failed
\* (yahoo_finance.py:74-85 and coingecko.py:81-94 catch every exception and
\* return an empty frame).
Histories == UNION {[1..n -> HistoryPrices] : n \in 0..MaxHistoryLen}

\* config.py:18-24 IndicatorConfig: any integers are accepted; positive ones
\* are drawn here.
IndicatorConfigs ==
    [rsi_period : Periods, macd_fast : {1, MaxPeriod}, macd_slow : {1, 2},
     macd_signal : {1, 2}, sma_short : {1, MaxPeriod},
     sma_long : {2, MaxPeriod}]

\* The volume column of a history of n days: flat, or flat with a last day
\* nine times as high.
Volumes(n, spike) == [i \in 1..n |-> IF spike /\ i = n THEN 9 ELSE 1]

\* An RSI in tenths as the whole number of points get_signal_summary compares
\* with 30 and 70, on the same side of both thresholds.
RsiPoints(tenths) ==
    IF tenths % 10 # 0 /\ tenths > 700 THEN tenths \div 10 + 1
    ELSE tenths \div 10

\* stock_agent.py:32-33 / crypto_agent.py:30-31  `if history.empty`
NeverEmpty(closes) == FALSE

Empty(closes) == closes = <<>>

\* stock_agent.py:42-47 / crypto_agent.py:37-42
SmaIfEnough(closes, window) ==
    IF Len(closes) >= window THEN calculate_sma(closes, window) ELSE None

\* The histogram as get_signal_summary sees it.  Its value is not computed by
\* calculate_macd here, only whether it is a number: the number's sign is an
\* input, and nan compares like 0 (nan > 0 and nan < 0 are both False).
HistogramArgument(tag, sign) ==
    IF tag = "None" THEN None
    ELSE IF tag = "number" THEN Some(sign)
    ELSE Some(0)

\* stock_agent.py:24-68 / crypto_agent.py:24-63: None for an empty history,
\* else the analysis record.  has_volume tells the two apart: analyze_coin
\* sets volume_spike to False.  Prices are in ten-thousandths where they meet
\* the moving averages.
analyze(c, has_volume) ==
    IF Empty(c.closes) THEN None
    ELSE LET cfg == c.cfg
             rsi == calculate_rsi(c.closes, cfg.rsi_period)
             macd == calculate_macd(Len(c.closes), cfg.macd_fast,
                                    cfg.macd_slow, cfg.macd_signal)
             sma_short == SmaIfEnough(c.closes, cfg.sma_short)
             sma_long == SmaIfEnough(c.closes, cfg.sma_long)
             vol_spike == IF has_volume
                          THEN detect_volume_spike(
                                 Volumes(Len(c.closes), c.spike), 4)
                          ELSE FALSE
             signal == get_signal_summary(
                         IF rsi = None THEN None ELSE Some(RsiPoints(rsi[1])),
                         HistogramArgument(macd.histogram, c.macd_sign),
                         Some(10000 * c.price), sma_short, sma_long)
         IN  Some([rsi |-> rsi, macd_line |-> macd.line,
                   macd_signal |-> macd.signal,
                   macd_histogram |-> macd.histogram,
                   sma_short |-> sma_short, sma_long |-> sma_long,
                   volume_spike |-> vol_spike, signal |-> signal])

TickerCalls ==
    [fn : {"analyze_ticker"}, closes : Histories, spike : BOOLEAN,
     price : HistoryPrices, macd_sign : {-1, 0, 1}, cfg : IndicatorConfigs]

CoinCalls ==
    [fn : {"analyze_coin"}, closes : Histories,
     price : HistoryPrices, macd_sign : {-1, 0, 1}, cfg : IndicatorConfigs]

AnalyzeTicker ==
    /\ ind_call.fn = "analyze_ticker"
    /\ Returns(analyze(ind_call, TRUE))

AnalyzeCoin ==
    /\ ind_call.fn = "analyze_coin"
    /\ Returns(analyze(ind_call, FALSE))

\* stock_agent.py:92-99 / crypto_agent.py:94-101: the loop body of run()
\* around the call: an analysis is appended, None becomes one warning.
RecordAnalysis ==
    /\ ind_call.fn \in {"analyze_ticker", "analyze_coin"}
    /\ ind_done /\ outcomes = <<>>
    /\ LET outcome == IF ind_result = None THEN "no_history" ELSE "ok" IN
         /\ outcomes' = Append(outcomes, outcome)
         /\ analyses' = IF outcome = "ok" THEN Append(analyses, 1)
                        ELSE analyses
         /\ errors' = ItemWarning(errors, 1, outcome)
    /\ UNCHANGED <<agent, dry_run, n_items, cfg_sections, pc, item_i, batch,
                   quote_map, sec_i, fetched, report, status, notified>>
    /\ UNCHANGED <<nvars, xvars>>

AnalyzeNext == AnalyzeTicker \/ AnalyzeCoin \/ RecordAnalysis

\* One analysis of one item of the watchlist or the portfolio.
InitAnalyze ==
    /\ ind_call \in TickerCalls \cup CoinCalls
    /\ ind_done = FALSE
    /\ ind_result = <<>>
    /\ NotifierIdle /\ RunIdle /\ FetchIdle /\ SplitIdle /\ UtilIdle

SpecAnalyze == InitAnalyze /\ [][AnalyzeNext]_vars

----------------------------------------------------------------------------
\* The run got past the aggregate threshold.
PassedThreshold == LoopDone /\ ~TooManyFailures(Len(analyses), n_items)

\* C23: a dry run never enters the notifier, on any path (no entry point is
\* called, no transport call is made, the notifier never leaves its idle
\* state); a non-dry run that passes the aggregate threshold never calls
\* send_error and calls send_message at most once, and when it has ended it
\* has called send_message exactly once, with the rendered report.
C23_DryRunNeverNotifies ==
    /\ (dry_run => notified = <<>> /\ calls = <<>> /\ npc = "idle")
    /\ ((~dry_run /\ PassedThreshold) =>
          /\ ~ErrorNotified
          /\ Len(notified) <= 1
          /\ (pc \in {"await_send", "finished"} =>
                /\ report.built
                /\ notified = <<[entry |-> "send_message",
                                 text |-> format_report(report)]>>))

\* A non-dry run passed the threshold with a failed item and a failed
\* optional fetch, and ended having delivered its report in one call of
\* send_message.
C23_Witness ==
    /\ Terminated /\ ~dry_run /\ PassedThreshold
    /\ FailedItems # {} /\ FailedFetches # {}
    /\ Len(notified) = 1 /\ notified[1].entry = "send_message"
    /\ calls # <<>> /\ status = "ok"

\* Indices of the warning entries the per-item loop added.
LoopWarnings ==
    {k \in 1..Len(errors) :
       errors[k].kind \in {"no_data", "no_history", "analysis_failed"}}

\* C30: after the per-item loop every configured item has exactly one
\* outcome: it is either in the analyses, once, or the subject of exactly one
\* warning of the loop, never both; analyses plus loop warnings number the
\* configured items; the analyses are in configured order; and the report,
\* once built, carries these analyses, counts them as successful and counts
\* the configured items as its total.
C30_OneOutcomePerItem ==
    LoopDone =>
      /\ Len(outcomes) = n_items
      /\ Len(analyses) + Cardinality(LoopWarnings) = n_items
      /\ \A i \in 1..n_items :
           Cardinality({k \in 1..Len(analyses) : analyses[k] = i})
             + Cardinality({k \in LoopWarnings : errors[k].about = i}) = 1
      /\ \A j, k \in 1..Len(analyses) : j < k => analyses[j] < analyses[k]
      /\ (report.built =>
            /\ report.watchlist = analyses
            /\ report.successful = Len(report.watchlist)
            /\ report.total = n_items)

\* A run over three items of which the second failed built a report carrying
\* the first and the third, in that order, and a failed optional fetch added
\* a warning that is not one of the loop's.
C30_Witness ==
    /\ LoopDone /\ report.built /\ n_items = 3
    /\ report.watchlist = <<1, 3>>
    /\ report.successful = 2 /\ report.total = 3
    /\ Cardinality(LoopWarnings) = 1
    /\ Len(errors) > Cardinality(LoopWarnings)

\* C29: a finished call of send_message has made at least one transport
\* call, and it returned True only if at least one chunk was delivered.
C29_SuccessMeansSomethingWasSent ==
    Finished =>
      /\ calls # <<>>
      /\ (result = "True" => \E i \in 1..Len(parts) : Delivered(i))

\* Helpers of the properties of the traced _split_message.

\* The for loop is running and a chunk is being accumulated behind at least
\* one chunk already emitted: the last emitted chunk and the accumulation are
\* two consecutive chunks of the result, the second starting with a whole
\* section.
Accumulating == spc = "loop" /\ sp_parts # <<>> /\ sp_current # <<>>

\* Index in sp_sections of the section the accumulation starts with (the
\* accumulation is the join of the sections from there to the last one taken).
FirstOfCurrent == sp_k - Len(split(sp_current))

\* The chunk emitted last is a slice of a hard-split section: an oversized
\* section precedes the accumulation's first section, with nothing but empty
\* sections in between.
LastIsSlice ==
    \E i \in 1..(FirstOfCurrent - 1) :
       /\ Len(sp_sections[i]) > MAX_MESSAGE_LENGTH
       /\ \A m \in (i + 1)..(FirstOfCurrent - 1) : sp_sections[m] = <<>>

\* Length of the last emitted chunk, the separator and the section the
\* accumulation starts with.
PackedLength ==
    Len(sp_parts[Len(sp_parts)]) + Len(SECTION_SEPARATOR)
      + Len(sp_sections[FirstOfCurrent])

\* C26 as stated: whenever a chunk that starts with a whole section follows
\* another chunk, the earlier chunk, the separator and that section together
\* exceed the limit.
C26_Original ==
    Accumulating =>
      /\ sp_current = join(SubSeq(sp_sections, FirstOfCurrent, sp_k - 1))
      /\ PackedLength > MAX_MESSAGE_LENGTH

\* C26 (amended): whenever a chunk that starts with a whole section follows
\* an accumulated chunk (one that is not a slice of a hard-split section), the
\* earlier chunk, the separator and that section together exceed the limit;
\* and while the accumulation is non-empty, a next section that fits behind it
\* with the separator is appended to it and no chunk is emitted.
C26_GreedyPacking ==
    /\ (Accumulating =>
          /\ sp_current = join(SubSeq(sp_sections, FirstOfCurrent, sp_k - 1))
          /\ (~LastIsSlice => PackedLength > MAX_MESSAGE_LENGTH))
    /\ ((spc = "loop" /\ sp_k <= Len(sp_sections) /\ sp_current # <<>>
         /\ Len(sp_current) + Len(SECTION_SEPARATOR) + Len(sp_sections[sp_k])
              <= MAX_MESSAGE_LENGTH) =>
          SplitStep([parts |-> sp_parts, current |-> sp_current],
                    sp_sections[sp_k])
            = [parts |-> sp_parts,
               current |-> sp_current \o SECTION_SEPARATOR
                             \o sp_sections[sp_k]])

\* A chunk was flushed because the next section would have made it one
\* character too long, and that section now starts the accumulation; no
\* section of the text is oversized.
C26_Witness ==
    /\ Accumulating /\ ~LastIsSlice
    /\ \A k \in 1..Len(sp_sections) : Len(sp_sections[k]) <= MAX_MESSAGE_LENGTH
    /\ PackedLength = MAX_MESSAGE_LENGTH + 1
    /\ Len(sp_parts) = 2

\* Plain concatenation of a sequence of texts.
RECURSIVE Concat(_)
Concat(ss) == IF ss = <<>> THEN <<>> ELSE ss[1] \o Concat(Tail(ss))

\* The texts in q are consecutive slices of the section s: all of exactly the
\* limit, the last one possibly shorter but not empty, and together they are s.
SlicesOf(q, s) ==
    /\ q # <<>>
    /\ \A i \in 1..(Len(q) - 1) : Len(q[i]) = MAX_MESSAGE_LENGTH
    /\ Len(q[Len(q)]) \in 1..MAX_MESSAGE_LENGTH
    /\ Concat(q) = s

\* The last n entries of the sequence q.
LastN(q, n) == SubSeq(q, Len(q) - n + 1, Len(q))

\* C27: when the section the loop takes next is longer than the limit, the
\* iteration emits the accumulation (if any) as a chunk, then the slices of
\* the section, and nothing else, and leaves the accumulation empty; so after
\* an oversized section the chunk list ends with its slices and the section
\* that follows starts from an empty accumulation.
C27_OversizedSectionIsHardSplit ==
    /\ ((spc = "loop" /\ sp_k <= Len(sp_sections)
         /\ Len(sp_sections[sp_k]) > MAX_MESSAGE_LENGTH) =>
          LET step == SplitStep([parts |-> sp_parts, current |-> sp_current],
                                sp_sections[sp_k])
              flushed == IF sp_current = <<>> THEN sp_parts
                         ELSE Append(sp_parts, sp_current)
          IN /\ Len(step.parts) > Len(flushed)
             /\ SubSeq(step.parts, 1, Len(flushed)) = flushed
             /\ SlicesOf(SubSeq(step.parts, Len(flushed) + 1, Len(step.parts)),
                         sp_sections[sp_k])
             /\ step.current = <<>>)
    /\ ((spc = "loop" /\ sp_k > 1
         /\ Len(sp_sections[sp_k - 1]) > MAX_MESSAGE_LENGTH) =>
          /\ sp_current = <<>>
          /\ \E n \in 1..Len(sp_parts) :
               SlicesOf(LastN(sp_parts, n), sp_sections[sp_k - 1]))

\* An oversized section was hard-split into a full slice and a shorter one
\* behind a flushed one-section chunk, and the accumulation is empty.
C27_Witness ==
    /\ spc = "loop" /\ sp_k = 3
    /\ sp_sections[1] # <<>>
    /\ Len(sp_sections[2]) > MAX_MESSAGE_LENGTH
    /\ Len(sp_parts) = 3
    /\ sp_parts[1] = sp_sections[1]
    /\ Len(sp_parts[3]) < MAX_MESSAGE_LENGTH
    /\ sp_current = <<>>

\* The non-empty entries of a sequence of texts, in order.
RECURSIVE NonEmpty(_)
NonEmpty(ss) ==
    IF ss = <<>> THEN <<>>
    ELSE IF ss[1] = <<>> THEN NonEmpty(Tail(ss))
    ELSE <<ss[1]>> \o NonEmpty(Tail(ss))

\* The sections found in a list of chunks, in chunk order.
RECURSIVE SectionsIn(_)
SectionsIn(chunks) ==
    IF chunks = <<>> THEN <<>>
    ELSE split(chunks[1]) \o SectionsIn(Tail(chunks))

\* Number of slices an oversized section of length n is cut into.
SliceCount(n) == (n + MAX_MESSAGE_LENGTH - 1) \div MAX_MESSAGE_LENGTH

\* The pieces found in the chunks are the given sections, one piece for a
\* section within the limit and its consecutive slices for an oversized one,
\* with no piece left over.
RECURSIVE Recovers(_, _)
Recovers(pieces, wanted) ==
    IF wanted = <<>> THEN pieces = <<>>
    ELSE LET n == IF Len(wanted[1]) <= MAX_MESSAGE_LENGTH THEN 1
                  ELSE SliceCount(Len(wanted[1]))
         IN /\ Len(pieces) >= n
            /\ Concat(SubSeq(pieces, 1, n)) = wanted[1]
            /\ Recovers(SubSeq(pieces, n + 1, Len(pieces)), Tail(wanted))

\* C28: when _split_message has returned, the non-empty sections found in
\* its chunks, read in chunk order with the slices of a hard-split section
\* concatenated back, are the non-empty sections of the text in their order:
\* nothing is lost, duplicated or reordered.  The traced loop returns what
\* the function computes.
C28_SectionsArePreserved ==
    spc = "returned" =>
      /\ sp_parts = _split_message(sp_text)
      /\ Recovers(NonEmpty(SectionsIn(sp_parts)), NonEmpty(split(sp_text)))

\* A text with an empty section, an oversized section and different
\* characters was split into several chunks.
C28_Witness ==
    /\ spc = "returned"
    /\ \E k \in 1..Len(sp_sections) : sp_sections[k] = <<>>
    /\ \E k \in 1..Len(sp_sections) : Len(sp_sections[k]) > MAX_MESSAGE_LENGTH
    /\ \E i, j \in 1..Len(sp_text) : sp_text[i] = "a" /\ sp_text[j] = "<"
    /\ Len(sp_parts) >= 2

\* What one character becomes when escaped on its own.
EscapeChar(c) ==
    IF c = "&" THEN amp ELSE IF c = "<" THEN lt ELSE IF c = ">" THEN gt
    ELSE <<c>>

\* Number of positions of s that hold a character of the set cs.
Count(s, cs) == Cardinality({i \in 1..Len(s) : s[i] \in cs})

\* C25: escape_html returns the concatenation of its input's characters each
\* escaped on its own ("&" as "&amp;", "<" as "&lt;", ">" as "&gt;", anything
\* else, the double quote included, as itself): no character is escaped
\* twice, so the output has as many "&" as the input has special characters,
\* it has no "<" and no ">", and a text without special characters comes back
\* unchanged.
C25_EscapesEachCharacterOnce ==
    (util_call.fn = "escape_html" /\ util_done) =>
      LET t == util_call.text IN
      /\ util_result = Concat([i \in 1..Len(t) |-> EscapeChar(t[i])])
      /\ Count(util_result, {"&"}) = Count(t, {"&", "<", ">"})
      /\ Count(util_result, {"<", ">"}) = 0
      /\ Count(util_result, {"\""}) = Count(t, {"\""})
      /\ (Count(t, {"&", "<", ">"}) = 0 => util_result = t)

\* A text that is already an entity was escaped: its "&" was escaped once and
\* the rest kept.
C25_Witness ==
    /\ util_call.fn = "escape_html" /\ util_done
    /\ util_call.text = <<"&", "l", "t", ";">>
    /\ util_result = <<"&", "a", "m", "p", ";", "l", "t", ";">>

\* An environment value that is unset, empty or made of blanks only.
Blank(value) == value = None \/ strip(value[1]) = <<>>

\* C24: load_config with require_telegram raises whenever the token or the
\* chat id is unset, empty or blank; without require_telegram it returns a
\* configuration for every valid file, whatever the two environment values.
C24_TelegramCheckFollowsTheFlag ==
    (util_call.fn = "load_config" /\ util_done) =>
      /\ ((util_call.require_telegram
           /\ (Blank(util_call.token_env) \/ Blank(util_call.chat_env))) =>
            util_result.outcome = "raise")
      /\ ((~util_call.require_telegram /\ util_call.file_valid) =>
            util_result.outcome = "config")

\* Number of section separators str.split finds in a text.
Separators(t) == Len(split(t)) - 1

\* A send_error call whose message has been rendered.
ErrorRendered == util_call.fn = "send_error" /\ npc # "idle"

\* C22 as stated: the rendered error message is a single section (it holds
\* no section separator) when the error text holds none.
C22_Original ==
    (ErrorRendered /\ Separators(util_call.message) = 0) =>
      Separators(html_text) = 0

\* C22 (amended): the rendered error message is two sections, a fixed header
\* and the escaped error text in its code tags, so it holds exactly one
\* section separator more than the error text; it holds no "<" or ">" coming
\* from the error text; it is what send_message is given (same length check
\* and splitting), and send_error returns what send_message returned.
C22_ErrorMessageIsTwoSections ==
    /\ (ErrorRendered =>
          LET body == <<"c">> \o escape_html(util_call.message) \o <<"/">> IN
          /\ html_text = <<"E">> \o SECTION_SEPARATOR \o body
          /\ Separators(html_text) = Separators(util_call.message) + 1
          /\ split(html_text)[1] = <<"E">>
          /\ Count(html_text, {"<", ">"}) = 0
          /\ (npc \notin {"call"} => parts = SendChunks(html_text)))
    /\ ((util_call.fn = "send_error" /\ util_done) =>
          /\ npc = "done"
          /\ util_result = result
          /\ util_result \in {"True", "False"}
          /\ (util_result = "True" <=>
                \A i \in 1..Len(parts) : Delivered(i)))

\* send_error returned True for an error text with a "<" and no separator:
\* the message went out as the header and the escaped text in its code tags,
\* the latter hard-split at the scaled limit, and one chunk needed the plain
\* fallback.
C22_Witness ==
    /\ util_call.fn = "send_error" /\ util_done
    /\ util_call.message = <<"<">>
    /\ parts = << <<"E">>, <<"c", "&", "l", "t">>, <<";", "/">> >>
    /\ util_result = "True"
    /\ Len(calls) = 4

\* An analysis call has returned.
Analyzed == ind_call.fn \in {"analyze_ticker", "analyze_coin"} /\ ind_done

\* What get_signal_summary was given for the analysis record a of the call c,
\* for the reference vote count.
SignalInputs(c, a) ==
    [rsi |-> IF a.rsi = None THEN None ELSE Some(RsiPoints(a.rsi[1])),
     macd_histogram |-> IF a.macd_histogram = "number" THEN Some(c.macd_sign)
                        ELSE None,
     price |-> Some(10000 * c.price),
     sma_short |-> a.sma_short,
     sma_long |-> a.sma_long]

\* The criteria whose indicators are all defined in the record a.
DefinedCriteria(a) ==
    {x \in Criteria :
       CASE x = "rsi"   -> a.rsi # None
         [] x = "macd"  -> a.macd_histogram = "number"
         [] x = "price" -> a.sma_short # None
         [] x = "cross" -> a.sma_short # None /\ a.sma_long # None}

=============================================================================
